---------------------------- MODULE Spec2Model ----------------------------
(***************************************************************************)
(* A model of web_media_server.py: the background sync pipeline            *)
(* (sync_all and its phases), the HTTP handler (FileBrowser.do_GET,        *)
(* send_file, send_thumbnail, send_dir, send_player) and the file system   *)
(* both of them share.                                                     *)
(*                                                                         *)
(* Strings are sequences of tokens.  A token is one character ("/", ".",   *)
(* "-", a digit ...) or an opaque run of characters that none of the       *)
(* modelled string operations ever looks into ("png", "_thumb",            *)
(* "__thumbs__").  Prefix tests, splitting, joining and normalisation      *)
(* work on the token sequence exactly as the Python code works on the      *)
(* character sequence.  os.path is modelled with its POSIX semantics.      *)
(***************************************************************************)
EXTENDS Integers, Sequences, FiniteSets, TLC

-----------------------------------------------------------------------------
(* Strings *)

StartsWith(s, p) == Len(p) <= Len(s) /\ SubSeq(s, 1, Len(p)) = p

EndsWith(s, p) == Len(p) <= Len(s) /\ SubSeq(s, Len(s) - Len(p) + 1, Len(s)) = p

Drop(s, n) == SubSeq(s, n + 1, Len(s))

\* s[start:stop] with 0-based bounds: a negative bound counts from the end and
\* both are clipped to the sequence
Slice(s, start, stop) ==
    LET clip(i) == LET j == IF i < 0 THEN i + Len(s) ELSE i
                   IN  IF j < 0 THEN 0 ELSE IF j > Len(s) THEN Len(s) ELSE j
    IN  SubSeq(s, clip(start) + 1, clip(stop))

\* str.rfind(ch) + 1: the 1-based position of the last ch in s, 0 if there is none
RFind(s, ch) ==
    LET RECURSIVE scan(_)
        scan(i) == IF i = 0 \/ s[i] = ch THEN i ELSE scan(i - 1)
    IN  scan(Len(s))

\* str.find(ch) + 1 from position `from` on, 0 if there is none
RECURSIVE Find(_, _, _)
Find(s, ch, from) ==
    IF from > Len(s) THEN 0 ELSE IF s[from] = ch THEN from ELSE Find(s, ch, from + 1)

\* str.split(sep) for a one-token separator: the pieces between the separators
RECURSIVE Split(_, _)
Split(s, sep) ==
    LET i == Find(s, sep, 1)
    IN  IF i = 0 THEN <<s>>
        ELSE <<SubSeq(s, 1, i - 1)>> \o Split(Drop(s, i), sep)

\* sep.join(parts)
RECURSIVE JoinWith(_, _)
JoinWith(parts, sep) ==
    IF parts = <<>> THEN <<>>
    ELSE IF Len(parts) = 1 THEN parts[1]
    ELSE parts[1] \o <<sep>> \o JoinWith(Tail(parts), sep)

\* str.lower() on the tokens of the model's alphabet
lower(s) ==
    [i \in 1..Len(s) |->
        IF s[i] = "PNG" THEN "png" ELSE IF s[i] = "JPG" THEN "jpg" ELSE s[i]]

\* urllib.parse.unquote on the escapes of the model's alphabet
unquote(s) ==
    [i \in 1..Len(s) |->
        IF s[i] \in {"%2e", "%2E"} THEN "."
        ELSE IF s[i] \in {"%2f", "%2F"} THEN "/"
        ELSE IF s[i] = "%20" THEN " "
        ELSE s[i]]

\* urllib.parse.quote (safe="/") on the characters of the model's alphabet
quote(s) == [i \in 1..Len(s) |-> IF s[i] = " " THEN "%20" ELSE s[i]]

-----------------------------------------------------------------------------
(* os.path (posixpath) *)

DotDot == <<".", ".">>

\* the component loop of posixpath.normpath
RECURSIVE NormComps(_, _, _)
NormComps(comps, acc, rooted) ==
    IF comps = <<>> THEN acc
    ELSE LET c == Head(comps)
             rest == Tail(comps)
         IN  IF c = <<>> \/ c = <<".">> THEN NormComps(rest, acc, rooted)
             ELSE IF c # DotDot
                     \/ (~rooted /\ acc = <<>>)
                     \/ (acc # <<>> /\ acc[Len(acc)] = DotDot)
                  THEN NormComps(rest, Append(acc, c), rooted)
             ELSE IF acc # <<>>
                  THEN NormComps(rest, SubSeq(acc, 1, Len(acc) - 1), rooted)
             ELSE NormComps(rest, acc, rooted)

normpath(path) ==
    IF path = <<>> THEN <<".">>
    ELSE LET slashes == IF ~StartsWith(path, <<"/">>) THEN 0
                        ELSE IF StartsWith(path, <<"/", "/">>)
                                /\ ~StartsWith(path, <<"/", "/", "/">>) THEN 2
                        ELSE 1
             body == JoinWith(NormComps(Split(path, "/"), <<>>, slashes > 0), "/")
             out == [i \in 1..slashes |-> "/"] \o body
         IN  IF out = <<>> THEN <<".">> ELSE out

\* os.path.join(a, b)
join(a, b) ==
    IF StartsWith(b, <<"/">>) THEN b
    ELSE IF a = <<>> \/ EndsWith(a, <<"/">>) THEN a \o b
    ELSE a \o <<"/">> \o b

RECURSIVE RStripSlash(_)
RStripSlash(s) ==
    IF s # <<>> /\ s[Len(s)] = "/" THEN RStripSlash(SubSeq(s, 1, Len(s) - 1)) ELSE s

\* os.path.dirname
dirname(p) ==
    LET head == SubSeq(p, 1, RFind(p, "/"))
    IN  IF head # <<>> /\ \E i \in 1..Len(head) : head[i] # "/"
        THEN RStripSlash(head) ELSE head

\* os.path.basename
basename(p) == Drop(p, RFind(p, "/"))

\* os.path.splitext(p): the position the extension starts at (Len(p)+1: none)
ExtStart(p) ==
    LET sep == RFind(p, "/")
        dot == RFind(p, ".")
    IN  IF dot > sep /\ \E k \in (sep + 1)..(dot - 1) : p[k] # "."
        THEN dot ELSE Len(p) + 1

splitext0(p) == SubSeq(p, 1, ExtStart(p) - 1)

splitext1(p) == SubSeq(p, ExtStart(p), Len(p))


-----------------------------------------------------------------------------
(* Module-level configuration *)

None == <<>>

IMAGE_EXT == {<<".", e>> : e \in {"jpg", "jpeg", "png", "gif", "webp", "bmp", "tif", "tiff"}}

VIDEO_EXT == {<<".", e>> : e \in {"mp4", "mov", "m4v", "avi", "mkv", "wmv", "flv"}}

AUDIO_EXT == {<<".", e>> : e \in {"mp3", "wav", "flac", "ogg", "aac", "m4a", "wma"}}

\* MODE_CHOICES: the base mode and the audio-metadata flag of every launch key
\* (the ffmpeg-logging flag changes console output only)
MODE_CHOICES ==
    {<<m, meta>> : m \in {"nocopytotemp", "copytotemp"}, meta \in BOOLEAN}

SCRIPT_DIR == <<"/", "app">>

DATA_DIR == SCRIPT_DIR

temp_root_path == join(SCRIPT_DIR, <<"_temp">>)

-----------------------------------------------------------------------------
(* The file system: normalised absolute path |-> node *)

File(d) == [kind |-> "file", data |-> d]

Dir == [kind |-> "dir", data |-> <<>>]

\* a folder that yields its files to os.walk in the given order
DirOf(order) == [kind |-> "dir", data |-> order]

exists(f, p) == normpath(p) \in DOMAIN f

isdir(f, p) == exists(f, p) /\ f[normpath(p)].kind = "dir"

isfile(f, p) == exists(f, p) /\ f[normpath(p)].kind = "file"

\* os.path.getsize (a directory reports the size of its inode, not of a content)
getsize(f, p) == Len(f[normpath(p)].data)

Put(f, p, node) == [q \in DOMAIN f \cup {p} |-> IF q = p THEN node ELSE f[q]]

Remove(f, p) == [q \in DOMAIN f \ {p} |-> f[q]]

\* the path and all of its ancestors below "/"
Chain(p) == {SubSeq(p, 1, i) : i \in {j \in 2..Len(p) : j = Len(p) \/ p[j + 1] = "/"}}

\* os.makedirs(p, exist_ok=True): can it succeed (no file stands in the way)
makedirs_ok(f, p) == \A q \in Chain(normpath(p)) : q \in DOMAIN f => f[q].kind = "dir"

makedirs(f, p) ==
    LET ch == Chain(normpath(p))
    IN  [q \in DOMAIN f \cup ch |-> IF q \in DOMAIN f THEN f[q] ELSE Dir]

\* os.listdir: the names directly under directory d
listdir(f, d) ==
    LET n == normpath(d)
        pre == IF n = <<"/">> THEN n ELSE n \o <<"/">>
    IN  {Drop(q, Len(pre)) : q \in {r \in DOMAIN f :
            StartsWith(r, pre) /\ Len(r) > Len(pre) /\ RFind(r, "/") = Len(pre)}}

\* file.read(n) at offset pos: a negative n reads to the end of the file
ReadAt(data, pos, n) ==
    IF n < 0 THEN Drop(data, IF pos < Len(data) THEN pos ELSE Len(data))
    ELSE SubSeq(data, pos + 1, IF pos + n < Len(data) THEN pos + n ELSE Len(data))

-----------------------------------------------------------------------------
(* HTTP responses *)

\* what an http.server handler leaves on the wire: the status line, the headers
\* the claims speak of, and the body.  kind tells the HTML pages apart.
Response(status, kind, of, clen, crange, body) ==
    [status |-> status, kind |-> kind, of |-> of, clen |-> clen,
     crange |-> crange, body |-> body, html |-> <<>>]

\* a 200 response whose body is an HTML page: html holds what the page shows
HtmlPage(kind, of, doc) ==
    [status |-> 200, kind |-> kind, of |-> of, clen |-> 0,
     crange |-> <<>>, body |-> <<>>, html |-> <<doc>>]

\* a hyperlink of a page: the path and the query string of its href
Link(path, query) == [path |-> path, query |-> query]

send_error(code) == Response(code, "error", <<>>, 0, <<>>, <<>>)

\* an exception that escapes the handler after the headers went out: the
\* connection is closed with the status line sent and no body
Aborted(status, of, clen) == Response(status, "aborted", of, clen, <<>>, <<>>)

-----------------------------------------------------------------------------
(* Raw file with Range *)

Digits == <<"0", "1", "2", "3", "4", "5", "6", "7", "8", "9">>

IsDigit(t) == \E d \in 1..10 : Digits[d] = t

DigitVal(t) == (CHOOSE d \in 1..10 : Digits[d] = t) - 1

RECURSIVE StripSpaces(_)
StripSpaces(s) ==
    IF s # <<>> /\ Head(s) = " " THEN StripSpaces(Tail(s))
    ELSE IF s # <<>> /\ s[Len(s)] = " " THEN StripSpaces(SubSeq(s, 1, Len(s) - 1))
    ELSE s

RECURSIVE DecimalValue(_)
DecimalValue(s) ==
    IF s = <<>> THEN 0 ELSE 10 * DecimalValue(SubSeq(s, 1, Len(s) - 1)) + DigitVal(s[Len(s)])

\* int(s) raises ValueError unless s is decimal digits inside optional blanks
IntOk(s) == LET t == StripSpaces(s) IN t # <<>> /\ \A i \in 1..Len(t) : IsDigit(t[i])

IntOf(s) == DecimalValue(StripSpaces(s))

Min(a, b) == IF a < b THEN a ELSE b

\* range_header.replace("bytes=", "")
StripUnit(h) == SelectSeq(h, LAMBDA t : t # "bytes=")

\* ParseRange that reads the first range of a comma-separated list
ParseRange_FirstSegment(range_header, file_size) ==
    LET bytes_range == Split(Split(StripUnit(range_header), ",")[1], "-")
        whole == <<0, file_size - 1>>
    IN  IF bytes_range[1] # <<>> /\ ~IntOk(bytes_range[1]) THEN whole
        ELSE IF Len(bytes_range) < 2 THEN whole
        ELSE IF bytes_range[2] # <<>> /\ ~IntOk(bytes_range[2]) THEN whole
        ELSE <<IF bytes_range[1] # <<>> THEN IntOf(bytes_range[1]) ELSE 0,
               Min(IF bytes_range[2] # <<>> THEN IntOf(bytes_range[2]) ELSE file_size - 1,
                   file_size - 1)>>

\* ParseRange with an except branch that restores end and forgets start
ParseRange_KeepsStart(range_header, file_size) ==
    LET bytes_range == Split(StripUnit(range_header), "-")
        start == IF bytes_range[1] # <<>> /\ IntOk(bytes_range[1])
                 THEN IntOf(bytes_range[1]) ELSE 0
    IN  IF Len(bytes_range) >= 2
           /\ (bytes_range[1] = <<>> \/ IntOk(bytes_range[1]))
           /\ (bytes_range[2] = <<>> \/ IntOk(bytes_range[2]))
        THEN <<start, Min(IF bytes_range[2] # <<>> THEN IntOf(bytes_range[2])
                          ELSE file_size - 1, file_size - 1)>>
        ELSE <<start, file_size - 1>>

\* lines 2124-2131: the window <<start, end>> of a non-empty Range header
ParseRange(range_header, file_size) ==
    LET bytes_range == Split(StripUnit(range_header), "-")
        whole == <<0, file_size - 1>>
    IN  IF bytes_range[1] # <<>> /\ ~IntOk(bytes_range[1]) THEN whole
        ELSE IF Len(bytes_range) < 2 THEN whole
        ELSE IF bytes_range[2] # <<>> /\ ~IntOk(bytes_range[2]) THEN whole
        ELSE <<IF bytes_range[1] # <<>> THEN IntOf(bytes_range[1]) ELSE 0,
               Min(IF bytes_range[2] # <<>> THEN IntOf(bytes_range[2]) ELSE file_size - 1,
                   file_size - 1)>>

send_file(f, filepath, range_header) ==
    IF ~exists(f, filepath) THEN send_error(404)
    ELSE LET file_size == getsize(f, filepath)
             data == f[normpath(filepath)].data
         IN  IF f[normpath(filepath)].kind # "file"
             THEN \* open() of a directory raises after the headers were sent
                  Aborted(IF range_header # <<>> THEN 206 ELSE 200, filepath, file_size)
             ELSE IF range_header # <<>>
             THEN LET w == ParseRange(range_header, file_size)
                      chunk_size == (w[2] - w[1]) + 1
                  IN  Response(206, "file", filepath, chunk_size,
                               <<w[1], w[2], file_size>>, ReadAt(data, w[1], chunk_size))
             ELSE Response(200, "file", filepath, file_size, <<>>, data)

-----------------------------------------------------------------------------
(* Thumbnails, directory listing, player *)

ThumbsPrefix == <<"/", "__thumbs__", "/">>

PreviewPrefix == <<"/", "__preview__", "/">>

\* cover_rel_path
cover_rel_path(rel_path) == splitext0(rel_path) \o <<"_preview", ".", "jpg">>

send_thumbnail(f, filepath) ==
    LET size == getsize(f, filepath)
    IN  IF f[normpath(filepath)].kind # "file"
        THEN Aborted(200, filepath, size)
        ELSE Response(200, "derivative", filepath, size, <<>>, f[normpath(filepath)].data)

\* parse_qs(query).get(key, [default])[0]: the value of the first key=value
\* piece with a value that is not blank
query_get(query, key, default) ==
    LET pieces == Split(query, "&")
        hits == {i \in 1..Len(pieces) : Len(pieces[i]) > 1 /\ pieces[i][1] = key}
    IN  IF hits = {} THEN default
        ELSE unquote(Tail(pieces[CHOOSE i \in hits : \A j \in hits : i <= j]))

\* str(n) for n >= 0
RECURSIVE ToDigits(_)
ToDigits(n) ==
    IF n < 10 THEN <<Digits[n + 1]>> ELSE ToDigits(n \div 10) \o <<Digits[(n % 10) + 1]>>

\* PageOf without max(1, ...)
PageOf_Unfloored(page_param) == IF IntOk(page_param) THEN IntOf(page_param) ELSE 1

\* lines 1909-1912: max(1, int(page_param)), 1 when int() raises; a number
\* with a minus sign is below 1
PageOf(page_param) ==
    IF IntOk(page_param) /\ IntOf(page_param) > 1 THEN IntOf(page_param) ELSE 1

\* the characters of file names, in the order of their code points
TokenOrder ==
    <<" ", ".", "0", "1", "2", "3", "4", "5", "6", "7", "8", "9", "JPG", "PNG",
      "_preview", "_thumb", "a", "b", "bin", "c", "d", "e", "jpg", "k", "m", "mp3",
      "mp4", "png", "r", "s", "txt", "x">>

TokenRank(t) == CHOOSE i \in 1..Len(TokenOrder) : TokenOrder[i] = t

\* a < b for two str values
RECURSIVE LexLess(_, _)
LexLess(a, b) ==
    IF a = <<>> THEN b # <<>>
    ELSE IF b = <<>> THEN FALSE
    ELSE IF Head(a) = Head(b) THEN LexLess(Tail(a), Tail(b))
    ELSE TokenRank(Head(a)) < TokenRank(Head(b))

\* sorted(names)
RECURSIVE sorted_names(_)
sorted_names(names) ==
    IF names = {} THEN <<>>
    ELSE LET least == CHOOSE x \in names : \A y \in names : x = y \/ LexLess(x, y)
         IN  <<least>> \o sorted_names(names \ {least})

page_size == 10

\* lines 1949-1991: the row send_dir renders for one directory entry
ListingRow(f, directory, rel, name, view_mode, page_query) ==
    LET full_path == join(directory, name)
        rel_path == join(rel, name)
        ext == lower(splitext1(name))
        href == <<"/">> \o quote(rel_path)
    IN  IF isdir(f, full_path)
        THEN [name |-> name, kind |-> "folder", thumb |-> <<>>,
              href |-> Link(href, <<"mode=">> \o view_mode)]
        ELSE IF ext \in IMAGE_EXT \cup VIDEO_EXT \cup AUDIO_EXT
        THEN [name |-> name, kind |-> "media",
              thumb |-> IF ext \in IMAGE_EXT /\ view_mode # <<"listmode">>
                        THEN (<<"/", "__thumbs__", "/">> \o quote(splitext0(rel_path) \o <<"_thumb", ".", "jpg">>))
                        ELSE <<>>,
              href |-> Link(href, <<"view=1", "&", "mode=">> \o view_mode \o page_query)]
        ELSE [name |-> name, kind |-> "raw", thumb |-> <<>>,
              href |-> Link(href, <<"mode=">> \o view_mode \o page_query)]

\* lines 1898-2087: the listing page of `directory`
send_dir(f, directory, rel, query) ==
    IF ~isdir(f, directory) THEN send_error(404)
    ELSE LET items == sorted_names(listdir(f, directory))
             view_mode == query_get(query, "mode=", <<"paged">>)
             page_param == query_get(query, "page=", <<"1">>)
             requested == PageOf(page_param)
             is_paged == view_mode = <<"paged">>
             page_query == IF is_paged THEN <<"&", "page=">> \o ToDigits(requested) ELSE <<>>
             total_items == Len(items)
             pages == (total_items + page_size - 1) \div page_size
             total_pages == IF pages > 1 THEN pages ELSE 1
             page == IF is_paged /\ requested > total_pages THEN total_pages ELSE requested
             items_to_show ==
                 IF is_paged
                 THEN Slice(items, (page - 1) * page_size, (page - 1) * page_size + page_size)
                 ELSE items
             here == <<"/">> \o quote(rel)
             parent == dirname(rel)
         IN  HtmlPage("listing", directory,
                 [mode |-> view_mode,
                  page |-> page,
                  total_pages |-> total_pages,
                  toggle |-> Link(here, <<"mode=", IF is_paged THEN "listmode" ELSE "paged">>),
                  parent |-> IF rel = <<>> THEN <<>>
                             ELSE <<Link(IF parent # <<>> THEN <<"/">> \o quote(parent) ELSE <<"/">>,
                                         <<"mode=", IF is_paged THEN "paged" ELSE "listmode">>)>>,
                  rows |-> [i \in 1..Len(items_to_show) |->
                              ListingRow(f, directory, rel, items_to_show[i], view_mode, page_query)],
                  placeholders |-> IF is_paged THEN page_size - Len(items_to_show) ELSE 0,
                  prev |-> IF is_paged /\ total_pages > 1 /\ page > 1
                           THEN <<Link(here, <<"mode=", "paged", "&", "page=">> \o ToDigits(page - 1))>>
                           ELSE <<>>,
                  next |-> IF is_paged /\ total_pages > 1 /\ page < total_pages
                           THEN <<Link(here, <<"mode=", "paged", "&", "page=">> \o ToDigits(page + 1))>>
                           ELSE <<>>])

\* ImageStep that forgets the page of the listing
ImageStep_NoPage(rel_dir, name, view_mode, current_page) ==
    Link(<<"/">> \o quote(IF rel_dir # <<>> THEN rel_dir \o <<"/">> \o name ELSE name),
         <<"view=1">> \o (IF view_mode # None THEN <<"&", "mode=">> \o view_mode ELSE <<>>))

\* lines 2205-2243: the href of a Previous Image / Next Image control
ImageStep(rel_dir, name, view_mode, current_page) ==
    Link(<<"/">> \o quote(IF rel_dir # <<>> THEN rel_dir \o <<"/">> \o name ELSE name),
         <<"view=1">> \o (IF view_mode # None THEN <<"&", "mode=">> \o view_mode ELSE <<>>)
                      \o (IF current_page # None THEN <<"&", "page=">> \o current_page ELSE <<>>))

\* lines 2157-2244: the player page of filepath
send_player(f, filepath, rel, query, meta, base_cover) ==
    IF ~exists(f, filepath) THEN send_error(404)
    ELSE LET view_mode == query_get(query, "mode=", None)
             current_page == query_get(query, "page=", None)
             ext == lower(splitext1(filepath))
             base == basename(filepath)
             directory == dirname(filepath)
             rel_dir == dirname(rel)
             items == IF isdir(f, directory) THEN sorted_names(listdir(f, directory)) ELSE <<>>
             images == SelectSeq(items, LAMBDA n : lower(splitext1(n)) \in IMAGE_EXT)
             at == {i \in 1..Len(images) : images[i] = base}
             k == IF at = {} THEN 0 ELSE CHOOSE i \in at : TRUE
             mode_part == IF view_mode # None THEN <<"mode=">> \o view_mode ELSE <<>>
             page_part == IF current_page # None THEN <<"page=">> \o current_page ELSE <<>>
             params == IF mode_part # <<>> /\ page_part # <<>>
                       THEN mode_part \o <<"&">> \o page_part ELSE mode_part \o page_part
             \* lines 2181-2188: the cover preview that is looked up for an audio file
             cover_rel == cover_rel_path(rel)
             cover_full == IF ext \in AUDIO_EXT /\ meta /\ base_cover # None
                           THEN <<join(base_cover, cover_rel)>> ELSE <<>>
         IN  HtmlPage("player", filepath,
                 [name |-> base,
                  cover_full |-> cover_full,
                  cover_url |-> IF cover_full # <<>> /\ exists(f, cover_full[1])
                                THEN <<PreviewPrefix \o quote(cover_rel)>> ELSE <<>>,
                  mode |-> view_mode,
                  page |-> current_page,
                  is_image |-> ext \in IMAGE_EXT,
                  file_url |-> Link(<<"/">> \o quote(rel), params),
                  back |-> Link(IF rel_dir # <<>> THEN <<"/">> \o quote(rel_dir) ELSE <<"/">>,
                                params),
                  prev |-> IF ext \in IMAGE_EXT /\ k > 1
                           THEN <<ImageStep(rel_dir, images[k - 1], view_mode, current_page)>>
                           ELSE <<>>,
                  next |-> IF ext \in IMAGE_EXT /\ k > 0 /\ k < Len(images)
                           THEN <<ImageStep(rel_dir, images[k + 1], view_mode, current_page)>>
                           ELSE <<>>])

\* lines 1728-1809: a fixed asset served from SCRIPT_DIR / DATA_DIR
send_asset(f, candidates) ==
    LET found == {i \in 1..Len(candidates) : isfile(f, candidates[i])}
    IN  IF found = {} THEN send_error(404)
        ELSE LET asset == candidates[CHOOSE i \in found : \A j \in found : i <= j]
             IN  Response(200, "asset", asset, getsize(f, asset), <<>>,
                          f[normpath(asset)].data)

-----------------------------------------------------------------------------
(* The router *)

\* urlparse(self.path).path: a target that begins with "//" has a network
\* location, which is not part of the path
urlparse_path(target) ==
    IF StartsWith(target, <<"/", "/">>)
    THEN LET i == Find(target, "/", 3)
         IN  IF i = 0 THEN <<>> ELSE Drop(target, i - 1)
    ELSE target

\* lines 1854-1863: the file-system path a request for the server tree resolves to
ServerPath(base, path_only) ==
    LET rel0 == unquote(path_only)
        rel == IF StartsWith(rel0, <<"/">>) THEN Tail(rel0) ELSE rel0
        full == normpath(join(base, rel))
        base_norm == normpath(base)
    IN  IF ~StartsWith(full, base_norm)
        THEN [full |-> base_norm, rel |-> <<>>]
        ELSE [full |-> full, rel |-> rel]

\* send_derivative without the 403 branch
send_derivative_Unguarded(f, root, rel_quoted) ==
    IF root = None THEN send_error(404)
    ELSE LET full == normpath(join(root, unquote(rel_quoted)))
         IN  IF ~exists(f, full) THEN send_error(404) ELSE send_thumbnail(f, full)

\* lines 1811-1851: a derivative below `root` (the thumbnail or the preview root)
send_derivative(f, root, rel_quoted) ==
    IF root = None THEN send_error(404)
    ELSE LET rel == unquote(rel_quoted)
             full == normpath(join(root, rel))
             root_norm == normpath(root)
         IN  IF ~StartsWith(full, root_norm) THEN send_error(403)
             ELSE IF ~exists(f, full) THEN send_error(404)
             ELSE send_thumbnail(f, full)

do_GET(f, base_server, base_thumb, base_cover, meta, rq) ==
    LET path_only == urlparse_path(rq.target)
    IN  IF base_server = None THEN send_error(500)
        ELSE IF path_only = <<"/", "folder", ".", "png">>
        THEN send_asset(f, <<join(SCRIPT_DIR, <<"folder", ".", "png">>)>>)
        ELSE IF StartsWith(path_only, <<"/", "thumbnail_">>) /\ EndsWith(path_only, <<".", "png">>)
        THEN send_asset(f, <<join(DATA_DIR, Tail(path_only))>>)
        ELSE IF path_only = <<"/", "icon", ".", "ico">>
        THEN send_asset(f, <<join(DATA_DIR, <<"icon", ".", "ico">>)>>)
        ELSE IF path_only = <<"/", "favicon", ".", "ico">>
        THEN send_asset(f, <<join(DATA_DIR, <<"favicon", ".", "ico">>)>>)
        ELSE IF path_only \in {<<"/", "apple-touch-icon", ".", "png">>, <<"/", "favicon", ".", "png">>}
        THEN send_asset(f, <<join(DATA_DIR, <<"apple-touch-icon", ".", "png">>),
                             join(DATA_DIR, <<"favicon", ".", "png">>),
                             join(DATA_DIR, <<"favicon", ".", "ico">>)>>)
        ELSE IF StartsWith(path_only, ThumbsPrefix)
        THEN send_derivative(f, base_thumb, Drop(path_only, Len(ThumbsPrefix)))
        ELSE IF StartsWith(path_only, PreviewPrefix)
        THEN send_derivative(f, base_cover, Drop(path_only, Len(PreviewPrefix)))
        ELSE LET r == ServerPath(base_server, path_only)
             IN  IF isdir(f, r.full) THEN send_dir(f, r.full, r.rel, rq.query)
                 ELSE IF \E i \in 1..Len(rq.query) : rq.query[i] = "view=1"
                      THEN send_player(f, r.full, r.rel, rq.query, meta, base_cover)
                 ELSE send_file(f, r.full, rq.range)

-----------------------------------------------------------------------------
(* The modelled installation *)

\* size of the files the Range claims are checked on
MaxFileLen == 3

\* length of the Range header values that are enumerated
MaxHeaderLen == 4

\* copy_with_progress moves `chunk` bytes per iteration (1 MiB in the source);
\* the model's files are a few bytes long, so a chunk is one byte
chunk == 1

SourceRoot == <<"/", "m">>

\* the source folder: relative path |-> content
SourceFiles ==
    (<<"a", ".", "png">> :> <<1>>) @@ (<<"s", ".", "mp3">> :> <<2, 3>>)

\* the order the source folder yields its files in
SourceOrder == <<<<"s", ".", "mp3">>, <<"a", ".", "png">>>>

\* a folder beside the source folder whose name begins with the source's name
OutsideFile == <<"/", "m", "x", "/", "k">>

\* what the external tool writes for each recipe, as a function of the source
ThumbData(d) == <<11, d[1]>>

FullImageData(d) == <<12, d[1]>>

VideoData(d) == <<13, d[1]>>

CoverData(d) == <<14, d[1]>>

BaseFs ==
    LET src == [p \in {join(SourceRoot, r) : r \in DOMAIN SourceFiles} |->
                   File(SourceFiles[CHOOSE r \in DOMAIN SourceFiles : join(SourceRoot, r) = p])]
    IN  src @@ (<<"/">> :> Dir) @@ (SourceRoot :> DirOf(SourceOrder)) @@ (SCRIPT_DIR :> Dir)
            @@ (join(SCRIPT_DIR, <<"folder", ".", "png">>) :> File(<<7>>))
            @@ (<<"/", "m", "x">> :> Dir) @@ (OutsideFile :> File(<<9>>))

ImagesRoot == join(temp_root_path, <<"_images">>)

ThumbRoot == join(ImagesRoot, <<"_thumbnails">>)

CoverRoot == join(ImagesRoot, <<"_preview">>)

ServerRoot == join(temp_root_path, <<"_server">>)

\* lines 1152-1153
\* thumb_rel_path that keeps the extension of the picture
thumb_rel_path_KeepsExt(rel) == rel \o <<"_thumb", ".", "jpg">>

thumb_rel_path(rel) == splitext0(rel) \o <<"_thumb", ".", "jpg">>

\* lines 1191-1201: where process_file_to_server puts an entry
dst_rel_path(rel_path) ==
    LET ext == splitext1(rel_path)
    IN  IF ext \in AUDIO_EXT THEN rel_path
        ELSE IF ext \in VIDEO_EXT THEN splitext0(rel_path) \o <<".", "mp4">>
        ELSE IF ext \in IMAGE_EXT THEN splitext0(rel_path) \o <<".", "jpg">>
        ELSE rel_path

\* the private tree an earlier run of the server left behind: nothing; every
\* artifact of this source, complete; or artifacts of an older source
PriorRuns == {"fresh", "same", "stale"}

PriorFs(prior) ==
    LET a == <<"a", ".", "png">>
        t == <<"s", ".", "mp3">>
        dirs == makedirs(makedirs(makedirs(BaseFs, ThumbRoot), CoverRoot), ServerRoot)
    IN  IF prior = "fresh" THEN BaseFs
        ELSE IF prior = "same"
        THEN (join(ThumbRoot, thumb_rel_path(a)) :> File(ThumbData(SourceFiles[a])))
             @@ (join(CoverRoot, cover_rel_path(t)) :> File(CoverData(SourceFiles[t])))
             @@ (join(ServerRoot, dst_rel_path(a)) :> File(FullImageData(SourceFiles[a])))
             @@ (join(ServerRoot, dst_rel_path(t)) :> File(SourceFiles[t]))
             @@ dirs
        ELSE (join(ThumbRoot, thumb_rel_path(a)) :> File(<<>>))
             @@ (join(CoverRoot, cover_rel_path(t)) :> File(<<>>))
             @@ (join(ServerRoot, dst_rel_path(a)) :> File(FullImageData(<<5>>)))
             @@ (join(ServerRoot, dst_rel_path(t)) :> File(<<2, 4>>))
             @@ dirs

-----------------------------------------------------------------------------
(* State *)

VARIABLES
    mpc,               \* main(): "boot", "started" (worker running), "serving", "exited"
    MODE, SHOW_AUDIO_META, SOURCE_DIR,
    BASE_SERVER_DIR, BASE_THUMB_DIR, BASE_COVER_DIR,
    fs,                \* the file system
    sync_threads,      \* how many times main() started a sync_all thread
    wpc,               \* sync_all: "idle", "catalog", "thumbs", "covers", "mirror",
                       \*           "finished", "dead" (an exception ended the thread)
    sorted_files,      \* the catalog: sequence of <<rel, size>>
    idx,               \* loop position in sorted_files
    wstep,             \* inside one entry: "entry", "thumbtool", "copytool",
                       \*                   "frametool", "convtool", "copy"
    tool,              \* the external ffmpeg process sync_all is waiting for
    copied,            \* copy_with_progress: bytes written so far
    log,               \* what sync_all did, in order: [ph, rel, what]; the event
                       \* of the catalog holds the files in the order os.walk
                       \* found them in
    req, resp,         \* the request last handled and what was answered
    browser            \* the listing a user who follows the links of the pages
                       \* came from: [stage, dir, mode, page]

vars == <<mpc, MODE, SHOW_AUDIO_META, SOURCE_DIR, BASE_SERVER_DIR, BASE_THUMB_DIR,
          BASE_COVER_DIR, fs, sync_threads, wpc, sorted_files, idx, wstep, tool,
          copied, log, req, resp, browser>>

globals == <<MODE, SHOW_AUDIO_META, SOURCE_DIR, BASE_SERVER_DIR, BASE_THUMB_DIR,
             BASE_COVER_DIR>>

worker == <<wpc, sorted_files, idx, wstep, tool, copied, log>>

NoTool == [on |-> FALSE, dst |-> <<>>, out |-> <<>>, n |-> -1]

NoRequest == [target |-> <<>>, query |-> <<>>, range |-> <<>>]

NoResponse == Response(0, "none", <<>>, 0, <<>>, <<>>)

NoBrowser == [stage |-> "start", dir |-> <<>>, mode |-> <<>>, page |-> 0]

Boot(f) ==
    /\ mpc = "boot"
    /\ MODE = "copytotemp"
    /\ SHOW_AUDIO_META = FALSE
    /\ SOURCE_DIR = None
    /\ BASE_SERVER_DIR = None
    /\ BASE_THUMB_DIR = None
    /\ BASE_COVER_DIR = None
    /\ fs = f
    /\ sync_threads = 0
    /\ wpc = "idle"
    /\ sorted_files = <<>>
    /\ idx = 1
    /\ wstep = "entry"
    /\ tool = NoTool
    /\ copied = 0
    /\ log = <<>>
    /\ req = NoRequest
    /\ resp = NoResponse
    /\ browser = NoBrowser

Init == \E prior \in PriorRuns : Boot(PriorFs(prior))

-----------------------------------------------------------------------------
(* main *)

\* ensure_dirs that leaves the source folder as the server tree of every mode
ensure_dirs_SourceServed(mode) ==
    [thumb |-> ThumbRoot, cover |-> CoverRoot, server |-> SourceRoot]

\* ensure_dirs: the three base paths of a mode
ensure_dirs(mode) ==
    [thumb |-> ThumbRoot, cover |-> CoverRoot,
     server |-> IF mode = "nocopytotemp" THEN None ELSE ServerRoot]

\* lines 2428-2507: the mode and folder are applied, the roots are prepared and
\* the sync thread is started
main ==
    /\ mpc = "boot"
    /\ \E choice \in MODE_CHOICES :
        /\ MODE' = choice[1]
        /\ SHOW_AUDIO_META' = choice[2]
        /\ BASE_SERVER_DIR' = IF choice[1] = "nocopytotemp" THEN SourceRoot
                              ELSE ensure_dirs(choice[1]).server
        /\ BASE_THUMB_DIR' = ensure_dirs(choice[1]).thumb
        /\ BASE_COVER_DIR' = ensure_dirs(choice[1]).cover
    /\ SOURCE_DIR' = SourceRoot
    /\ sync_threads' = sync_threads + 1
    /\ wpc' = "catalog"
    /\ mpc' = "started"
    /\ UNCHANGED <<browser, fs, sorted_files, idx, wstep, tool, copied, log, req, resp>>

\* lines 2401-2411: the listener opens
run_server_forever ==
    /\ mpc = "started"
    /\ mpc' = IF BASE_SERVER_DIR = None THEN "exited" ELSE "serving"
    /\ UNCHANGED <<browser, globals, fs, sync_threads, worker, req, resp>>

-----------------------------------------------------------------------------
(* Request handling: one handler thread per connection *)

\* a handler that leaves a marker of the request in the thumbnail tree
Handle_LeavesMarker(rq) ==
    /\ mpc = "serving"
    /\ req' = rq
    /\ resp' = do_GET(fs, BASE_SERVER_DIR, BASE_THUMB_DIR, BASE_COVER_DIR, SHOW_AUDIO_META, rq)
    /\ fs' = Put(makedirs(fs, BASE_THUMB_DIR), join(BASE_THUMB_DIR, <<"seen">>), File(<<>>))
    /\ UNCHANGED <<browser, mpc, globals, sync_threads, worker>>

Handle(rq) ==
    /\ mpc = "serving"
    /\ req' = rq
    /\ resp' = do_GET(fs, BASE_SERVER_DIR, BASE_THUMB_DIR, BASE_COVER_DIR, SHOW_AUDIO_META, rq)
    /\ UNCHANGED <<browser, mpc, globals, fs, sync_threads, worker>>

-----------------------------------------------------------------------------
(* sync_all: helpers *)

\* sha256_file: a digest that, like SHA-256, tells any two contents apart
sha256_file(f, p) ==
    LET d == f[normpath(p)].data
    IN  <<Len(d)>> \o [i \in 1..Len(d) |-> (7 * d[i] + 3) % 257]

\* remove_empty_dirs(path, stop): rmdir upwards while the directory is empty
RECURSIVE remove_empty_dirs(_, _, _)
remove_empty_dirs(f, path, stop) ==
    LET current == normpath(path)
    IN  IF ~StartsWith(current, stop) \/ current = stop THEN f
        ELSE IF ~isdir(f, current) \/ listdir(f, current) # {} THEN f
        ELSE remove_empty_dirs(Remove(f, current), dirname(current), stop)

\* os.walk: the files of source_folder, in the order the folder yields them in
os_walk(f, source_folder) ==
    SelectSeq(f[normpath(source_folder)].data,
              LAMBDA name : isfile(f, join(source_folder, name)))

Perms(S) == {w \in [1..Cardinality(S) -> S] : \A i, j \in 1..Cardinality(S) : w[i] = w[j] => i = j}

\* InsertBySize that puts an entry ahead of the entries of its size
RECURSIVE InsertBySize_Unstable(_, _)
InsertBySize_Unstable(sorted, e) ==
    IF sorted = <<>> THEN <<e>>
    ELSE IF sorted[Len(sorted)][2] < e[2] THEN Append(sorted, e)
    ELSE Append(InsertBySize_Unstable(SubSeq(sorted, 1, Len(sorted) - 1), e),
                sorted[Len(sorted)])

\* list.sort(key=size): stable, ascending
RECURSIVE InsertBySize(_, _)
InsertBySize(sorted, e) ==
    IF sorted = <<>> THEN <<e>>
    ELSE IF sorted[Len(sorted)][2] <= e[2] THEN Append(sorted, e)
    ELSE Append(InsertBySize(SubSeq(sorted, 1, Len(sorted) - 1), e), sorted[Len(sorted)])

RECURSIVE SortBySize(_)
SortBySize(list) ==
    IF list = <<>> THEN <<>>
    ELSE InsertBySize(SortBySize(SubSeq(list, 1, Len(list) - 1)), list[Len(list)])

\* build_sorted_file_list, for the order `walk` in which os.walk found the files
build_sorted_file_list(f, source_folder, walk) ==
    SortBySize([i \in 1..Len(walk) |-> <<walk[i], getsize(f, join(source_folder, walk[i]))>>])

\* PhaseAfter that runs the audio covers whether or not they are shown
PhaseAfter_AlwaysCovers(ph, mode, meta) ==
    IF ph = "catalog" THEN "thumbs"
    ELSE IF ph = "thumbs" THEN "covers"
    ELSE IF ph = "covers" /\ mode # "nocopytotemp" THEN "mirror"
    ELSE "finished"

\* PhaseAfter with the mirror loop ahead of the audio covers
PhaseAfter_MirrorFirst(ph, mode, meta) ==
    IF ph = "catalog" THEN "thumbs"
    ELSE IF ph = "thumbs" /\ mode # "nocopytotemp" THEN "mirror"
    ELSE IF ph \in {"thumbs", "mirror"} /\ meta THEN "covers"
    ELSE "finished"

\* lines 1262-1277: the phase sync_all runs after phase ph
PhaseAfter(ph, mode, meta) ==
    IF ph = "catalog" THEN "thumbs"
    ELSE IF ph = "thumbs" /\ meta THEN "covers"
    ELSE IF ph \in {"thumbs", "covers"} /\ mode # "nocopytotemp" THEN "mirror"
    ELSE "finished"

Event(ph, rel, what) == [ph |-> ph, rel |-> rel, what |-> what]

\* the loop of the current phase moves on to its next entry
NextEntry(what) ==
    /\ idx' = idx + 1
    /\ wstep' = "entry"
    /\ tool' = NoTool
    /\ copied' = 0
    /\ log' = Append(log, Event(wpc, sorted_files[idx][1], what))
    /\ UNCHANGED <<wpc, sorted_files>>

\* sync_all is left waiting for an external ffmpeg run that writes `out` to `dst`
Launch(step, dst, out, what) ==
    /\ tool' = [on |-> TRUE, dst |-> dst, out |-> out, n |-> -1]
    /\ wstep' = step
    /\ log' = Append(log, Event(wpc, sorted_files[idx][1], what))
    /\ UNCHANGED <<wpc, sorted_files, idx, copied>>

InLoop(ph) == wpc = ph /\ wstep = "entry" /\ idx <= Len(sorted_files)

ToolDone == tool.n = Len(tool.out)

-----------------------------------------------------------------------------
(* sync_all: the phases *)

Catalog ==
    /\ wpc = "catalog"
    /\ sorted_files' = build_sorted_file_list(fs, SOURCE_DIR, os_walk(fs, SOURCE_DIR))
    /\ log' = Append(log, Event("catalog", os_walk(fs, SOURCE_DIR), "built"))
    /\ wpc' = PhaseAfter("catalog", MODE, SHOW_AUDIO_META)
    /\ idx' = 1
    /\ UNCHANGED <<browser, mpc, globals, fs, sync_threads, wstep, tool, copied, req, resp>>

\* a phase loop has run out of entries: sync_all goes on to the next phase
PhaseEnd ==
    /\ wpc \in {"thumbs", "covers", "mirror"}
    /\ wstep = "entry"
    /\ idx > Len(sorted_files)
    /\ wpc' = PhaseAfter(wpc, MODE, SHOW_AUDIO_META)
    /\ idx' = 1
    /\ UNCHANGED <<browser, mpc, globals, fs, sync_threads, sorted_files, wstep, tool, copied,
                   log, req, resp>>

\* the external ffmpeg process: it opens (creates or truncates) its output file
\* and then writes it piece by piece
ToolRun ==
    /\ tool.on
    /\ tool.n < Len(tool.out)
    /\ tool' = [tool EXCEPT !.n = IF tool.n < 0 THEN 0 ELSE tool.n + 1]
    /\ fs' = Put(fs, tool.dst, File(SubSeq(tool.out, 1, tool'.n)))
    /\ UNCHANGED <<browser, mpc, globals, sync_threads, wpc, sorted_files, idx, wstep, copied,
                   log, req, resp>>

\* generate_thumbnails_first, one iteration up to the start of convert_thumbnail.
\* io_ok: a missing directory could be created; launch_ok: ffmpeg could be started
ThumbEntry(io_ok, launch_ok) ==
    /\ InLoop("thumbs")
    /\ LET rel == sorted_files[idx][1]
           src == join(SOURCE_DIR, rel)
           thumb_full == join(BASE_THUMB_DIR, thumb_rel_path(rel))
           thumb_dir == dirname(thumb_full)
           made == makedirs(fs, thumb_dir)
       IN  IF lower(splitext1(src)) \notin IMAGE_EXT
           THEN NextEntry("n/a") /\ fs' = fs
           ELSE IF (~io_ok /\ ~isdir(fs, thumb_dir)) \/ ~makedirs_ok(fs, thumb_dir)
           THEN \* the OSError is raised outside the try block and ends sync_all
                /\ wpc' = "dead"
                /\ log' = Append(log, Event(wpc, rel, "raised"))
                /\ UNCHANGED <<fs, sorted_files, idx, wstep, tool, copied>>
           ELSE IF exists(made, thumb_full)
           THEN NextEntry("skip") /\ fs' = made
           ELSE IF ~launch_ok
           THEN NextEntry("error") /\ fs' = remove_empty_dirs(made, thumb_dir, temp_root_path)
           ELSE Launch("thumbtool", thumb_full, ThumbData(fs[src].data), "start") /\ fs' = made
    /\ UNCHANGED <<browser, mpc, globals, sync_threads, req, resp>>

\* convert_thumbnail returns (the exit status of ffmpeg is not looked at)
ThumbReturn ==
    /\ wpc = "thumbs" /\ wstep = "thumbtool"
    /\ NextEntry(IF ToolDone THEN "done" ELSE "toolfail")
    /\ UNCHANGED <<browser, mpc, globals, fs, sync_threads, req, resp>>

\* generate_audio_covers, one iteration up to the first ffmpeg run of
\* extract_audio_cover
CoverEntry(io_ok) ==
    /\ InLoop("covers")
    /\ LET rel == sorted_files[idx][1]
           src == join(SOURCE_DIR, rel)
           cover_full == join(BASE_COVER_DIR, cover_rel_path(rel))
           cover_dir == dirname(cover_full)
       IN  IF lower(splitext1(rel)) \notin AUDIO_EXT
           THEN NextEntry("n/a") /\ fs' = fs
           ELSE IF exists(fs, cover_full) /\ getsize(fs, cover_full) > 0
           THEN NextEntry("skip") /\ fs' = fs
           ELSE IF (~io_ok /\ ~isdir(fs, cover_dir)) \/ ~makedirs_ok(fs, cover_dir)
           THEN NextEntry("error") /\ fs' = fs
           ELSE Launch("copytool", cover_full, CoverData(fs[src].data), "start")
                /\ fs' = makedirs(fs, cover_dir)
    /\ UNCHANGED <<browser, mpc, globals, sync_threads, req, resp>>

\* extract_audio_cover after the stream-copy run: done, or the frame export starts
CoverCopyReturn ==
    /\ wpc = "covers" /\ wstep = "copytool"
    /\ IF ToolDone /\ exists(fs, tool.dst) /\ getsize(fs, tool.dst) > 0
       THEN NextEntry("done")
       ELSE Launch("frametool", tool.dst, tool.out, "fallback")
    /\ UNCHANGED <<browser, mpc, globals, fs, sync_threads, req, resp>>

\* extract_audio_cover after the frame export: done, or clean up and give up
CoverFrameReturn ==
    /\ wpc = "covers" /\ wstep = "frametool"
    /\ LET cover_full == tool.dst
           swept == IF exists(fs, cover_full) /\ getsize(fs, cover_full) = 0
                    THEN Remove(fs, normpath(cover_full)) ELSE fs
       IN  IF exists(fs, cover_full) /\ getsize(fs, cover_full) > 0
           THEN NextEntry("done") /\ fs' = fs
           ELSE NextEntry("nopreview")
                /\ fs' = remove_empty_dirs(swept, dirname(cover_full), temp_root_path)
    /\ UNCHANGED <<browser, mpc, globals, sync_threads, req, resp>>

IsCopyClass(rel) ==
    LET ext == lower(splitext1(rel))
    IN  ext \in AUDIO_EXT \/ (ext \notin VIDEO_EXT /\ ext \notin IMAGE_EXT)

\* CopySkipped without the comparison of the digests
CopySkipped_ExistsOnly(f, src, dst) == exists(f, dst) /\ isfile(f, dst)

\* lines 1214-1220: the copy of src to dst is skipped
CopySkipped(f, src, dst) ==
    exists(f, dst) /\ isfile(f, dst) /\ sha256_file(f, src) = sha256_file(f, dst)

\* MirrorEntry that passes over a Video or Image entry whose destination exists
MirrorEntry_SkipsConverted(io, launch_ok) ==
    /\ InLoop("mirror")
    /\ LET rel == sorted_files[idx][1]
           src == join(SOURCE_DIR, rel)
           ext == lower(splitext1(src))
           dst == join(BASE_SERVER_DIR, dst_rel_path(rel))
           dst_dir == dirname(dst)
           made == makedirs(fs, dst_dir)
       IN  IF (io = "mkdir" /\ ~isdir(fs, dst_dir)) \/ ~makedirs_ok(fs, dst_dir)
           THEN NextEntry("error") /\ fs' = fs
           ELSE IF IsCopyClass(rel)
           THEN IF CopySkipped(made, src, dst)
                THEN NextEntry("skip") /\ fs' = made
                ELSE IF io = "open" \/ isdir(made, dst)
                THEN NextEntry("error") /\ fs' = made
                ELSE /\ fs' = Put(made, normpath(dst), File(<<>>))
                     /\ wstep' = "copy"
                     /\ copied' = 0
                     /\ log' = Append(log, Event(wpc, rel, "start"))
                     /\ UNCHANGED <<wpc, sorted_files, idx, tool>>
           ELSE IF exists(made, dst)
           THEN NextEntry("skip") /\ fs' = made
           ELSE IF ~launch_ok
           THEN NextEntry("error") /\ fs' = made
           ELSE Launch("convtool", dst,
                       IF ext \in VIDEO_EXT THEN VideoData(fs[src].data)
                       ELSE FullImageData(fs[src].data), "start")
                /\ fs' = made
    /\ UNCHANGED <<browser, mpc, globals, sync_threads, req, resp>>

\* process_file_to_server inside the try of sync_all, up to the first write of
\* copy_with_progress or the start of ffmpeg.  io: what the file system refuses
MirrorEntry(io, launch_ok) ==
    /\ InLoop("mirror")
    /\ LET rel == sorted_files[idx][1]
           src == join(SOURCE_DIR, rel)
           ext == lower(splitext1(src))
           dst == join(BASE_SERVER_DIR, dst_rel_path(rel))
           dst_dir == dirname(dst)
           made == makedirs(fs, dst_dir)
       IN  IF (io = "mkdir" /\ ~isdir(fs, dst_dir)) \/ ~makedirs_ok(fs, dst_dir)
           THEN NextEntry("error") /\ fs' = fs
           ELSE IF IsCopyClass(rel)
           THEN IF CopySkipped(made, src, dst)
                THEN NextEntry("skip") /\ fs' = made
                ELSE IF io = "open" \/ isdir(made, dst)
                THEN NextEntry("error") /\ fs' = made
                ELSE /\ fs' = Put(made, normpath(dst), File(<<>>))
                     /\ wstep' = "copy"
                     /\ copied' = 0
                     /\ log' = Append(log, Event(wpc, rel, "start"))
                     /\ UNCHANGED <<wpc, sorted_files, idx, tool>>
           ELSE IF ~launch_ok
           THEN NextEntry("error") /\ fs' = made
           ELSE Launch("convtool", dst,
                       IF ext \in VIDEO_EXT THEN VideoData(fs[src].data)
                       ELSE FullImageData(fs[src].data), "start")
                /\ fs' = made
    /\ UNCHANGED <<browser, mpc, globals, sync_threads, req, resp>>

\* copy_with_progress, one iteration of the read/write loop
CopyChunk(io_ok) ==
    /\ wpc = "mirror" /\ wstep = "copy"
    /\ LET rel == sorted_files[idx][1]
           src == join(SOURCE_DIR, rel)
           dst == normpath(join(BASE_SERVER_DIR, dst_rel_path(rel)))
           buf == ReadAt(fs[src].data, copied, chunk)
       IN  IF buf = <<>>
           THEN NextEntry("done") /\ fs' = fs
           ELSE IF ~io_ok
           THEN NextEntry("error") /\ fs' = fs
           ELSE /\ fs' = Put(fs, dst, File(fs[dst].data \o buf))
                /\ copied' = copied + Len(buf)
                /\ UNCHANGED <<wpc, sorted_files, idx, wstep, tool, log>>
    /\ UNCHANGED <<browser, mpc, globals, sync_threads, req, resp>>

\* convert_video / convert_image_full returns
ConvertReturn ==
    /\ wpc = "mirror" /\ wstep = "convtool"
    /\ NextEntry(IF ToolDone THEN "done" ELSE "toolfail")
    /\ UNCHANGED <<browser, mpc, globals, fs, sync_threads, req, resp>>

sync_all ==
    \/ Catalog
    \/ \E io_ok, launch_ok \in BOOLEAN : ThumbEntry(io_ok, launch_ok)
    \/ ThumbReturn
    \/ \E io_ok \in BOOLEAN : CoverEntry(io_ok)
    \/ CoverCopyReturn
    \/ CoverFrameReturn
    \/ \E io \in {"ok", "mkdir", "open"}, launch_ok \in BOOLEAN : MirrorEntry(io, launch_ok)
    \/ \E io_ok \in BOOLEAN : CopyChunk(io_ok)
    \/ ConvertReturn
    \/ PhaseEnd

-----------------------------------------------------------------------------
(* The system *)

\* the requests a browser of the served tree sends
Requests ==
    LET plain == {<<"/">>,
                  <<"/", "a", ".", "png">>,
                  <<"/", "a", ".", "jpg">>,
                  <<"/", "s", ".", "mp3">>,
                  ThumbsPrefix \o thumb_rel_path(<<"a", ".", "png">>),
                  PreviewPrefix \o cover_rel_path(<<"s", ".", "mp3">>)}
    IN  {[target |-> t, query |-> <<>>, range |-> <<>>] : t \in plain}

Next ==
    \/ main
    \/ run_server_forever
    \/ sync_all
    \/ ToolRun
    \/ \E rq \in Requests : Handle(rq)

Spec == Init /\ [][Next]_vars

-----------------------------------------------------------------------------
(* The handler alone, on the state main() leaves behind *)

\* the state once main() has started the sync thread and the listener has opened
\* and rq has been received
Serving(f, choice, rq) ==
    /\ mpc = "serving"
    /\ MODE = choice[1]
    /\ SHOW_AUDIO_META = choice[2]
    /\ SOURCE_DIR = SourceRoot
    /\ BASE_SERVER_DIR = IF choice[1] = "nocopytotemp" THEN SourceRoot
                         ELSE ensure_dirs(choice[1]).server
    /\ BASE_THUMB_DIR = ensure_dirs(choice[1]).thumb
    /\ BASE_COVER_DIR = ensure_dirs(choice[1]).cover
    /\ fs = f
    /\ sync_threads = 1
    /\ wpc = "catalog"
    /\ sorted_files = <<>>
    /\ idx = 1
    /\ wstep = "entry"
    /\ tool = NoTool
    /\ copied = 0
    /\ log = <<>>
    /\ req = rq
    /\ resp = NoResponse
    /\ browser = NoBrowser

\* the handler thread of the received request runs do_GET
Answer ==
    /\ req # NoRequest
    /\ resp = NoResponse
    /\ Handle(req)

(* Range requests for one file of the served folder *)

RangeTarget == <<"/", "r", ".", "bin">>

RangeFile == join(SourceRoot, Tail(RangeTarget))

RangeAlphabet == {"bytes=", "-", ",", "0", "1", "3"}

\* "bytes=100-199", the example of the specification
ExampleHeader == <<"bytes=", "1", "0", "0", "-", "1", "9", "9">>

ExampleFile == [i \in 1..1000 |-> i % 256]

\* headers that list several ranges, "bytes=0-9,20-29" among them
MultiRangeHeaders ==
    {<<"bytes=", "0", "-", "9", ",", "2", "0", "-", "2", "9">>,
     <<"bytes=", "0", "-", "1", ",", "3", "-", "3">>,
     <<"bytes=", "1", "-", ",", "0", "-", "0">>,
     <<"bytes=", "-", "1", ",", "0", "-">>}

RangeHeaders ==
    UNION {[1..n -> RangeAlphabet] : n \in 0..MaxHeaderLen}
        \cup {ExampleHeader} \cup MultiRangeHeaders

RangeFiles == {[i \in 1..n |-> i] : n \in 0..MaxFileLen} \cup {ExampleFile}

InitRange ==
    \E d \in RangeFiles, h \in RangeHeaders :
        Serving(Put(BaseFs, RangeFile, File(d)), <<"nocopytotemp", FALSE>>,
                [target |-> RangeTarget, query |-> <<>>, range |-> h])

SpecRange == InitRange /\ [][Answer]_vars

(* Requests that try to leave the root they are resolved under *)

\* how many path segments a traversal request has
MaxSegs == 3

Segments ==
    {DotDot, <<"%2e", "%2e">>, <<"m", "x">>, <<"k">>, <<"_preview">>,
     <<"s", "_preview", ".", "jpg">>, <<"_thumbnails", "x">>}

RECURSIVE SegPaths(_)
SegPaths(n) ==
    IF n = 0 THEN {<<>>}
    ELSE LET shorter == SegPaths(n - 1)
         IN  shorter \cup {p \o (IF p = <<>> THEN <<>> ELSE <<"/">>) \o sg :
                              p \in {q \in shorter : q # <<>> \/ n = 1}, sg \in Segments}

GuardTargets ==
    {pre \o p : pre \in {<<"/">>, ThumbsPrefix, PreviewPrefix}, p \in SegPaths(MaxSegs)}
    \cup {<<"/", "%2f", "m", "x", "/", "k">>, <<"/", "/", "m", "x", "/", "k">>,
          <<"/", "/", "/", "m", "x", "/", "k">>}

InitGuard ==
    \E prior \in {"fresh", "same"}, choice \in MODE_CHOICES, t \in GuardTargets :
        Serving(PriorFs(prior), choice, [target |-> t, query |-> <<>>, range |-> <<>>])

SpecGuard == InitGuard /\ [][Answer]_vars

(* The catalog of a source folder *)

\* size of the files of the catalogued folder, at most
MaxSize == 2

CatalogNames ==
    {<<"a", ".", "png">>, <<"b", ".", "txt">>, <<"c", ".", "mp4">>, <<"s", ".", "mp3">>}

\* a source folder with the files of CatalogNames, of the given sizes, that
\* yields them in the given order
CatalogFs(size, order) ==
    [p \in {join(SourceRoot, n) : n \in CatalogNames} |->
        File([i \in 1..size[Drop(p, Len(SourceRoot) + 1)] |-> i])]
    @@ (<<"/">> :> Dir) @@ (SourceRoot :> DirOf(order)) @@ (SCRIPT_DIR :> Dir)

InitCatalog ==
    \E size \in [CatalogNames -> 1..MaxSize], order \in Perms(CatalogNames),
       choice \in MODE_CHOICES :
        Serving(CatalogFs(size, order), choice, NoRequest)

SpecCatalog == InitCatalog /\ [][Catalog]_vars

(* A user who browses one folder of the served tree *)

\* how many entries the browsed folder has, at most
MaxEntries == 23

\* the browsed folder, "d e" in the served folder
ListDir == <<"d", " ", "e">>

\* the i-th entry of the browsed folder: "00.jpg", "01" (a folder), "02.mp3",
\* "03.txt", "04.jpg", "05.png" (a folder), "06.mp3", "07.txt", "08.jpg" ...
EntryName(i) ==
    <<Digits[((i - 1) \div 10) + 1], Digits[((i - 1) % 10) + 1]>>
        \o (IF i % 4 = 1 THEN <<".", "jpg">>
            ELSE IF i % 8 = 6 THEN <<".", "png">>
            ELSE IF i % 4 = 3 THEN <<".", "mp3">>
            ELSE IF i % 4 = 0 THEN <<".", "txt">>
            ELSE <<>>)

ListFs(n) ==
    [p \in {join(join(SourceRoot, ListDir), EntryName(i)) : i \in 1..n} |->
        IF splitext1(p) \in {<<>>, <<".", "png">>} THEN Dir ELSE File(<<1>>)]
    @@ (join(SourceRoot, ListDir) :> Dir) @@ BaseFs

\* the query strings of the first request: mode and page, each of them optional
BrowseQueries ==
    LET modes == {<<>>, <<"mode=", "paged">>, <<"mode=", "listmode">>, <<"mode=", "x">>}
        pages == {<<>>} \cup {<<"page=">> \o v :
                    v \in {<<"0">>, <<"1">>, <<"2">>, <<"3">>, <<"9">>, <<"9", "9">>, <<"x">>}}
    IN  {IF m # <<>> /\ pg # <<>> THEN m \o <<"&">> \o pg ELSE m \o pg :
            m \in modes, pg \in pages}

InitBrowse ==
    \E n \in 0..MaxEntries, q \in BrowseQueries :
        Serving(ListFs(n), <<"nocopytotemp", FALSE>>,
                [target |-> <<"/">> \o quote(ListDir), query |-> q, range |-> <<>>])

\* the browser requests the target of a link
Go(link) ==
    /\ req' = [target |-> link.path, query |-> link.query, range |-> <<>>]
    /\ resp' = NoResponse
    /\ UNCHANGED <<mpc, globals, fs, sync_threads, worker>>

\* the user follows a link of the page on the screen: a media file of a
\* listing, a pagination control of a listing, a Previous/Next Image control of
\* a player, or the Back To File List control of a player
Follow ==
    /\ resp.html # <<>>
    /\ LET doc == resp.html[1]
       IN  \/ /\ resp.kind = "listing"
              /\ \E i \in 1..Len(doc.rows) :
                    doc.rows[i].kind = "media" /\ Go(doc.rows[i].href)
              /\ browser' = [stage |-> "player", dir |-> resp.of,
                             mode |-> doc.mode, page |-> doc.page]
           \/ /\ resp.kind = "listing"
              /\ \E i \in 1..Len(doc.prev \o doc.next) : Go((doc.prev \o doc.next)[i])
              /\ browser' = NoBrowser
           \/ /\ resp.kind = "player"
              /\ \E i \in 1..Len(doc.prev \o doc.next) : Go((doc.prev \o doc.next)[i])
              /\ browser' = browser
           \/ /\ resp.kind = "player"
              /\ Go(doc.back)
              /\ browser' = [browser EXCEPT !.stage = "back"]

SpecBrowse == InitBrowse /\ [][Answer \/ Follow]_vars

(* sync_all on a source folder whose files share their base name *)

NameChoices ==
    {<<"a", ".", "png">>, <<"a", ".", "jpg">>, <<"a", ".", "mp3">>, <<"a", ".", "wav">>}

\* a source folder that holds the two files of order, each of one byte, and
\* yields them in that order
NamesFs(order) ==
    [p \in {join(SourceRoot, order[i]) : i \in 1..2} |->
        File(<<CHOOSE i \in 1..2 : join(SourceRoot, order[i]) = p>>)]
    @@ (<<"/">> :> Dir) @@ (SourceRoot :> DirOf(order)) @@ (SCRIPT_DIR :> Dir)

InitNames ==
    \E x, y \in NameChoices, choice \in MODE_CHOICES :
        x # y /\ Serving(NamesFs(<<x, y>>), choice, NoRequest)

SpecNames == InitNames /\ [][sync_all \/ ToolRun]_vars

(* Listings and players that are asked for while sync_all runs *)

\* the paged listing of the server root, the same in list mode, and the players
\* of the audio file and of the picture
ShownRequests ==
    {[target |-> <<"/">>, query |-> <<>>, range |-> <<>>],
     [target |-> <<"/">>, query |-> <<"mode=", "listmode">>, range |-> <<>>],
     [target |-> <<"/", "s", ".", "mp3">>, query |-> <<"view=1">>, range |-> <<>>]}

InitShown == \E choice \in MODE_CHOICES : Serving(BaseFs, choice, NoRequest)

SpecShown ==
    InitShown /\ [][sync_all \/ ToolRun \/ \E rq \in ShownRequests : Handle(rq)]_vars

(* The rotate control of the image player *)

\* how many times the user clicks Rotate Image, at most
MaxClicks == 8

\* lines 2264-2265: the script of a freshly loaded image player; clicks and
\* accepted note what the user did: the clicks made, and the angle after each
\* click that came while no snap-back was under way
ScriptStart ==
    [stage |-> "image", rotation |-> 0, busy |-> FALSE, timers |-> 0,
     clicks |-> 0, accepted |-> <<>>]

\* onclick that does not look at busy
onclick_NotBusyAware(st) ==
    LET r == st.rotation + 90
    IN  IF r = 360
        THEN [st EXCEPT !.rotation = r, !.busy = TRUE, !.timers = @ + 1]
        ELSE [st EXCEPT !.rotation = IF r > 360 THEN 0 ELSE r]

\* lines 2322-2339: btn.onclick
onclick(st) ==
    IF st.busy THEN st
    ELSE LET r == st.rotation + 90
         IN  IF r = 360
             THEN [st EXCEPT !.rotation = r, !.busy = TRUE, !.timers = @ + 1]
             ELSE [st EXCEPT !.rotation = IF r > 360 THEN 0 ELSE r]

\* lines 2310-2321: resetToZero
resetToZero(st) == [st EXCEPT !.rotation = 0, !.busy = FALSE]

\* the player page of an image has arrived and its script has run
PageLoaded ==
    /\ resp.kind = "player" /\ resp.html # <<>> /\ resp.html[1].is_image
    /\ browser.stage # "image"
    /\ browser' = ScriptStart
    /\ UNCHANGED <<mpc, globals, fs, sync_threads, worker, req, resp>>

\* the user clicks Rotate Image
Click ==
    /\ browser.stage = "image"
    /\ browser.clicks < MaxClicks
    /\ browser' = [onclick(browser) EXCEPT
                      !.clicks = @ + 1,
                      !.accepted = IF browser.busy THEN @
                                   ELSE Append(@, onclick(browser).rotation)]
    /\ UNCHANGED <<mpc, globals, fs, sync_threads, worker, req, resp>>

\* the timer set by onclick fires
Timeout ==
    /\ browser.stage = "image"
    /\ browser.timers > 0
    /\ browser' = [resetToZero(browser) EXCEPT !.timers = @ - 1]
    /\ UNCHANGED <<mpc, globals, fs, sync_threads, worker, req, resp>>

\* the media files of the browsed folder a player is asked for
PlayedEntries == {i \in 1..MaxEntries : i % 4 \in {1, 3}}

InitRotate ==
    \E i \in PlayedEntries : \E n \in {i, MaxEntries} :
        Serving(ListFs(n), <<"nocopytotemp", FALSE>>,
                [target |-> <<"/">> \o quote(join(ListDir, EntryName(i))),
                 query |-> <<"view=1">>, range |-> <<>>])

SpecRotate == InitRotate /\ [][Answer \/ PageLoaded \/ Click \/ Timeout]_vars

-----------------------------------------------------------------------------
(* Claims *)

Answered == resp # NoResponse

\* p is root or lies below it
Inside(p, root) == p = root \/ StartsWith(p, root \o <<"/">>)

IsDerivativeRequest(rq) ==
    \/ StartsWith(urlparse_path(rq.target), ThumbsPrefix)
    \/ StartsWith(urlparse_path(rq.target), PreviewPrefix)

IsAssetRequest(rq) ==
    LET path_only == urlparse_path(rq.target)
    IN  \/ path_only \in {<<"/", "folder", ".", "png">>, <<"/", "icon", ".", "ico">>,
                          <<"/", "favicon", ".", "ico">>, <<"/", "favicon", ".", "png">>,
                          <<"/", "apple-touch-icon", ".", "png">>}
        \/ StartsWith(path_only, <<"/", "thumbnail_">>) /\ EndsWith(path_only, <<".", "png">>)

IsTreeRequest(rq) == ~IsDerivativeRequest(rq) /\ ~IsAssetRequest(rq)

\* where the decoded, normalised path of a server-tree request points
TreeResolved(rq) ==
    LET rel == unquote(urlparse_path(rq.target))
    IN  normpath(join(BASE_SERVER_DIR, IF StartsWith(rel, <<"/">>) THEN Tail(rel) ELSE rel))

DerivativeRoot(rq) ==
    IF StartsWith(urlparse_path(rq.target), ThumbsPrefix) THEN BASE_THUMB_DIR ELSE BASE_COVER_DIR

\* where the decoded, normalised path of a derivative request points
DerivativeResolved(rq) ==
    normpath(join(DerivativeRoot(rq), unquote(Drop(urlparse_path(rq.target), Len(ThumbsPrefix)))))

\* C1: no response to a server-tree request carries the bytes of a file outside
\* the server root, and a path that resolves outside the root is answered with
\* the listing of the root.
C1_TraversalContained ==
    (Answered /\ IsTreeRequest(req)) =>
        /\ resp.kind = "file" => Inside(resp.of, normpath(BASE_SERVER_DIR))
        /\ (~Inside(TreeResolved(req), normpath(BASE_SERVER_DIR)) /\ isdir(fs, BASE_SERVER_DIR))
              => (resp.kind = "listing" /\ resp.of = normpath(BASE_SERVER_DIR))

\* "bytes=S-E" with S and E runs of digits, either of them possibly empty
WellFormedRange(h) ==
    /\ h # <<>> /\ Head(h) = "bytes="
    /\ LET pieces == Split(Tail(h), "-")
       IN  /\ Len(pieces) = 2
           /\ \A k \in 1..2 : \A i \in 1..Len(pieces[k]) : IsDigit(pieces[k][i])

RangeS(h) == LET S == Split(Tail(h), "-")[1] IN IF S = <<>> THEN 0 ELSE DecimalValue(S)

RangeE(h, N) ==
    LET E == Split(Tail(h), "-")[2]
    IN  IF E = <<>> THEN N - 1 ELSE Min(DecimalValue(E), N - 1)

\* C2: for a file of N bytes and Range: bytes=S-E the answer is 206 with
\* Content-Range s-e/N, s = S or 0, e = min(E, N-1) or N-1, and a body of
\* exactly e-s+1 bytes read from offset s.
C2_RangeWindow ==
    (Answered /\ WellFormedRange(req.range)) =>
        LET data == fs[RangeFile].data
            N == Len(data)
            s == RangeS(req.range)
            e == RangeE(req.range, N)
        IN  /\ resp.status = 206
            /\ resp.crange = <<s, e, N>>
            /\ Len(resp.body) = e - s + 1
            /\ resp.body = SubSeq(data, s + 1, e + 1)

Unparseable(h) ==
    /\ h # <<>>
    /\ LET pieces == Split(StripUnit(h), "-")
       IN  \/ Len(pieces) < 2
           \/ \E k \in 1..2 : pieces[k] # <<>> /\ ~IntOk(pieces[k])

\* C10 as claimed: a Range header that fails to parse gets the answer a request
\* without a Range header gets (200, the whole file).
C10_UnparseableIsPlain ==
    (Answered /\ Unparseable(req.range)) => resp = send_file(fs, RangeFile, <<>>)

\* C10 as amended: a Range header that fails to parse gets the whole file, but
\* as a partial response: 206, Content-Range 0-(N-1)/N, Content-Length N.
C10_UnparseableIsWhole206 ==
    (Answered /\ Unparseable(req.range)) =>
        LET data == fs[RangeFile].data
        IN  /\ resp.status = 206
            /\ resp.crange = <<0, Len(data) - 1, Len(data)>>
            /\ resp.clen = Len(data)
            /\ resp.body = data

C10_Witness ==
    /\ Answered
    /\ req.range = <<"bytes=", "1", "-", ",">>
    /\ Len(fs[RangeFile].data) = 3
    /\ resp.status = 206
    /\ Len(resp.body) = 3

-----------------------------------------------------------------------------
(* Claims about the running system *)

\* the files of the private tree the server makes for itself
IsArtifact(p) == StartsWith(p, temp_root_path \o <<"/">>)

\* what a finished run leaves at artifact path p: the artifact of the present
\* source, or what an earlier run had left there
FinalContents(p) ==
    {PriorFs(prior)[p].data : prior \in {q \in PriorRuns : p \in DOMAIN PriorFs(q)}}

\* C3: a handler that reads a thumbnail, a cover preview or a file of the mirror
\* tree answers with a complete artifact, never with a partially written file.
C3_NoPartialArtifact ==
    (Answered /\ resp.kind \in {"file", "derivative"} /\ resp.status = 200
        /\ IsArtifact(resp.of))
    => resp.body \in FinalContents(resp.of)

PhaseRank(ph) ==
    IF ph = "catalog" THEN 0 ELSE IF ph = "thumbs" THEN 1
    ELSE IF ph = "covers" THEN 2 ELSE IF ph = "mirror" THEN 3 ELSE 4

\* the loop phases this run's configuration goes through
Applicable(ph) ==
    \/ ph = "thumbs"
    \/ ph = "covers" /\ SHOW_AUDIO_META
    \/ ph = "mirror" /\ MODE # "nocopytotemp"

\* the event that ends the work of a phase on an entry
IsTerminal(e) == e.what \notin {"start", "fallback", "built"}

\* phase ph is through with entry rel before position j of the log
FinishedBefore(ph, rel, j) ==
    \E i \in 1..(j - 1) : log[i].ph = ph /\ log[i].rel = rel /\ IsTerminal(log[i])

CatalogEntries == {sorted_files[k][1] : k \in 1..Len(sorted_files)}

\* C4: sync_all is started once, on one thread; its phases run in the order
\* Catalog, Thumbnails, Audio previews, Mirror, each at most once, and a phase
\* touches no entry before the phase ahead of it is through with every entry.
C4_PhasesInOrder ==
    /\ sync_threads = (IF mpc = "boot" THEN 0 ELSE 1)
    /\ \A i, j \in 1..Len(log) :
          /\ i < j => PhaseRank(log[i].ph) <= PhaseRank(log[j].ph)
          /\ (i # j /\ log[i].ph = log[j].ph /\ log[i].rel = log[j].rel)
                => ~(IsTerminal(log[i]) /\ IsTerminal(log[j])) /\ log[i].ph # "catalog"
    /\ \A j \in 1..Len(log) :
          log[j].ph # "catalog" =>
              /\ Applicable(log[j].ph)
              /\ \E i \in 1..(j - 1) : log[i].ph = "catalog"
              /\ \A ph \in {"thumbs", "covers", "mirror"} :
                    (Applicable(ph) /\ PhaseRank(ph) < PhaseRank(log[j].ph))
                        => \A rel \in CatalogEntries : FinishedBefore(ph, rel, j)
    /\ (log # <<>> /\ wpc # "dead") => PhaseRank(log[Len(log)].ph) <= PhaseRank(wpc)

C4_Witness ==
    /\ wpc = "finished" /\ MODE = "copytotemp" /\ SHOW_AUDIO_META
    /\ \A ph \in {"thumbs", "covers", "mirror"} :
          \A rel \in DOMAIN SourceFiles : FinishedBefore(ph, rel, Len(log) + 1)

\* the events that report a failure on one entry
FailureEvents == {"error", "toolfail", "nopreview", "raised"}

\* C5: a failure on one entry is caught for that entry only: the thread goes
\* on, and a finished run has been through every entry in every phase.
C5_FailureIsolated ==
    (\E i \in 1..Len(log) : log[i].what \in FailureEvents) =>
        /\ wpc # "dead"
        /\ wpc = "finished" =>
              \A ph \in {"thumbs", "covers", "mirror"} :
                  Applicable(ph) => \A rel \in CatalogEntries :
                                        FinishedBefore(ph, rel, Len(log) + 1)

\* a step of the mirror loop that decides on a copy-class entry
C6_Decision ==
    /\ wpc = "mirror" /\ wstep = "entry" /\ idx <= Len(sorted_files)
    /\ IsCopyClass(sorted_files[idx][1])
    /\ Len(log') = Len(log) + 1

\* C6: in the mirror loop a copy-class entry is skipped if and only if its
\* destination exists with the SHA-256 of the source; a skip writes nothing, a
\* destination with other bytes is copied again, and a finished copy has the
\* bytes of the source.
C6_SkipIffSameHash ==
    [][LET rel == sorted_files[idx][1]
           src == join(SOURCE_DIR, rel)
           dst == normpath(join(BASE_SERVER_DIR, dst_rel_path(rel)))
           last == log'[Len(log')]
       IN  /\ C6_Decision =>
                /\ (last.what = "skip") <=>
                      (dst \in DOMAIN fs /\ fs[dst].kind = "file"
                          /\ sha256_file(fs, src) = sha256_file(fs, dst))
                /\ last.what = "skip" => fs' = fs
                /\ (dst \in DOMAIN fs /\ fs[dst].kind = "file" /\ fs[dst].data # fs[src].data
                        /\ last.what = "start") => fs'[dst].data = <<>>
           /\ (wpc = "mirror" /\ wstep = "copy" /\ Len(log') = Len(log) + 1
                  /\ last.what = "done") => fs'[dst].data = fs'[src].data
      ]_vars

C6_Witness ==
    \E i \in 1..Len(log) : log[i] = Event("mirror", <<"s", ".", "mp3">>, "skip")
          /\ fs[join(ServerRoot, <<"s", ".", "mp3">>)].data = SourceFiles[<<"s", ".", "mp3">>]

\* C7: once the listener is open, GET / is answered with the listing of the
\* root of the server tree, in either mode and whatever sync_all is doing.
C7_RootListed ==
    (Answered /\ req.target = <<"/">>) =>
        (resp.status = 200 /\ resp.kind = "listing" /\ resp.of = normpath(BASE_SERVER_DIR))

\* the derivative a request asks for is being generated: its ffmpeg run has
\* been started and has not been reported done
Generating(rq) ==
    LET path_only == urlparse_path(rq.target)
    IN  \E rel \in CatalogEntries :
           \/ /\ path_only = ThumbsPrefix \o thumb_rel_path(rel)
              /\ \E i \in 1..Len(log) : log[i] = Event("thumbs", rel, "start")
              /\ ~\E i \in 1..Len(log) : log[i] = Event("thumbs", rel, "done")
           \/ /\ path_only = PreviewPrefix \o cover_rel_path(rel)
              /\ \E i \in 1..Len(log) : log[i] = Event("covers", rel, "start")
              /\ ~\E i \in 1..Len(log) : log[i] = Event("covers", rel, "done")

\* C8: a request for a derivative that has not yet been generated is answered
\* at once with 404, whatever sync_all is doing.
C8_NotGeneratedIs404 ==
    [][(mpc = "serving" /\ <<req, resp>>' # <<req, resp>> /\ Generating(req'))
          => resp'.status = 404]_vars

-----------------------------------------------------------------------------
(* Range headers that list several ranges *)

\* "S-E" with S and E runs of digits, not both empty
IsRangeSpec(r) ==
    LET pieces == Split(r, "-")
    IN  /\ Len(pieces) = 2
        /\ pieces[1] \o pieces[2] # <<>>
        /\ \A k \in 1..2 : \A i \in 1..Len(pieces[k]) : IsDigit(pieces[k][i])

\* "bytes=" followed by two or more range specs separated by commas
MultiRange(h) ==
    /\ h # <<>> /\ Head(h) = "bytes="
    /\ LET list == Split(Tail(h), ",")
       IN  Len(list) >= 2 /\ \A k \in 1..Len(list) : IsRangeSpec(list[k])

FirstRange(h) == <<"bytes=">> \o Split(Tail(h), ",")[1]

\* C11 as claimed: of a Range header that lists several ranges the first is
\* honoured: 206 with the Content-Range and the body of the first range alone.
C11_FirstRangeHonoured ==
    (Answered /\ MultiRange(req.range)) =>
        LET data == fs[RangeFile].data
            N == Len(data)
            s == RangeS(FirstRange(req.range))
            e == RangeE(FirstRange(req.range), N)
        IN  /\ resp.status = 206
            /\ resp.crange = <<s, e, N>>
            /\ resp.body = SubSeq(data, s + 1, e + 1)

\* C11 as amended: a Range header that lists several ranges is honoured in no
\* part: the answer is 206 with Content-Range 0-(N-1)/N and the whole file.
C11_ListGetsWholeFile ==
    (Answered /\ MultiRange(req.range)) =>
        LET data == fs[RangeFile].data
        IN  /\ resp.status = 206
            /\ resp.crange = <<0, Len(data) - 1, Len(data)>>
            /\ resp.clen = Len(data)
            /\ resp.body = data

C11_Witness ==
    /\ Answered
    /\ req.range = <<"bytes=", "0", "-", "9", ",", "2", "0", "-", "2", "9">>
    /\ fs[RangeFile].data = ExampleFile
    /\ resp.status = 206
    /\ Len(resp.body) = 1000

-----------------------------------------------------------------------------
(* Directory listings and players *)

ListingAnswered == Answered /\ resp.kind = "listing" /\ resp.html # <<>>

\* the names in the listed directory
ListedNames == listdir(fs, resp.of)

\* how many names of the listed directory sort before name n
NamesBefore(n) == Cardinality({m \in ListedNames : LexLess(m, n)})

\* the page number a request asks for: its page parameter when that is a
\* number, 1 otherwise
AskedPage ==
    LET v == query_get(req.query, "page=", <<"1">>)
    IN  IF \A i \in 1..Len(v) : IsDigit(v[i]) THEN DecimalValue(v) ELSE 1

\* the asked page clamped to 1..max(1, ceil(N/10))
ClampedPage ==
    LET N == Cardinality(ListedNames)
        last == IF N > 10 THEN (N + 9) \div 10 ELSE 1
    IN  IF AskedPage < 1 THEN 1 ELSE IF AskedPage > last THEN last ELSE AskedPage

\* C12: a paged listing of N entries shows, for page p clamped to p', the
\* entries 10(p'-1)+1 .. min(10p', N) of the sorted directory in order, and
\* placeholder rows that fill the page up to 10 rows.
C12_PageWindow ==
    (ListingAnswered /\ resp.html[1].mode = <<"paged">>) =>
        LET doc == resp.html[1]
            N == Cardinality(ListedNames)
            first == 10 * (ClampedPage - 1) + 1
            last == Min(10 * ClampedPage, N)
        IN  /\ doc.page = ClampedPage
            /\ Len(doc.rows) = (IF last >= first THEN last - first + 1 ELSE 0)
            /\ \A i \in 1..Len(doc.rows) :
                  /\ doc.rows[i].name \in ListedNames
                  /\ NamesBefore(doc.rows[i].name) = first + i - 2
            /\ Len(doc.rows) + doc.placeholders = 10

\* 23 entries, page 3: three rows and seven placeholders
C12_Witness ==
    /\ ListingAnswered
    /\ Cardinality(ListedNames) = 23
    /\ query_get(req.query, "page=", <<"1">>) = <<"3">>
    /\ resp.html[1].page = 3
    /\ Len(resp.html[1].rows) = 3
    /\ resp.html[1].placeholders = 7

\* the link carries mode=<mode> and, where a page is given, page=<page>
Carries(link, mode, page) ==
    /\ query_get(link.query, "mode=", None) = mode
    /\ page # None => query_get(link.query, "page=", None) = page

\* C13: in a listing every file link and every pagination link carries the
\* active mode and, in paged mode, the page on display (a pagination link: the
\* page next to it); every folder link carries the active mode.
C13_LinksCarryModeAndPage ==
    ListingAnswered =>
        LET doc == resp.html[1]
            shown == IF doc.mode = <<"paged">> THEN ToDigits(doc.page) ELSE None
        IN  /\ \A i \in 1..Len(doc.rows) :
                  Carries(doc.rows[i].href, doc.mode,
                          IF doc.rows[i].kind = "folder" THEN None ELSE shown)
            /\ \A i \in 1..Len(doc.prev) :
                  Carries(doc.prev[i], doc.mode, ToDigits(doc.page - 1))
            /\ \A i \in 1..Len(doc.next) :
                  Carries(doc.next[i], doc.mode, ToDigits(doc.page + 1))

\* C14: from a listing of d in mode m on page p, a player link followed by any
\* number of Previous/Next Image steps and then Back To File List leads to a
\* listing of d in mode m on page p.
C14_BackToSameListing ==
    (Answered /\ browser.stage = "back") =>
        /\ resp.kind = "listing"
        /\ resp.of = browser.dir
        /\ resp.html[1].mode = browser.mode
        /\ browser.mode = <<"paged">> => resp.html[1].page = browser.page

\* back on page 2 of the paged listing after a Previous/Next Image step
C14_Witness ==
    /\ Answered /\ browser.stage = "back"
    /\ resp.kind = "listing"
    /\ browser.mode = <<"paged">> /\ browser.page = 2
    /\ resp.html[1].page = 2
    /\ basename(browser.dir) = ListDir

\* the image files of a directory
ImageFiles(dir) ==
    {n \in listdir(fs, dir) : isfile(fs, join(dir, n)) /\ lower(splitext1(n)) \in IMAGE_EXT}

\* the player page that answers a request for the link
PlayerOf(link) ==
    do_GET(fs, BASE_SERVER_DIR, BASE_THUMB_DIR, BASE_COVER_DIR, SHOW_AUDIO_META,
           [target |-> link.path, query |-> link.query, range |-> <<>>])

\* C15: the player of the k-th of the n images of a directory offers Previous,
\* the (k-1)-th image, exactly when k > 1 and Next, the (k+1)-th, exactly when
\* k < n; Next and then Previous lead back to the image.
C15_PreviousAndNext ==
    (Answered /\ resp.kind = "player" /\ resp.html # <<>> /\ resp.html[1].is_image) =>
        LET doc == resp.html[1]
            dir == dirname(resp.of)
            images == ImageFiles(dir)
            k == Cardinality({m \in images : LexLess(m, doc.name)}) + 1
            at(j) == CHOOSE m \in images : Cardinality({x \in images : LexLess(x, m)}) = j - 1
        IN  /\ (doc.prev # <<>>) <=> (k > 1)
            /\ (doc.next # <<>>) <=> (k < Cardinality(images))
            /\ doc.prev # <<>> => PlayerOf(doc.prev[1]).of = join(dir, at(k - 1))
            /\ doc.next # <<>> =>
                  /\ PlayerOf(doc.next[1]).of = join(dir, at(k + 1))
                  /\ PlayerOf(doc.next[1]).kind = "player"
                  /\ PlayerOf(doc.next[1]).html[1].prev # <<>>
                  /\ PlayerOf(PlayerOf(doc.next[1]).html[1].prev[1]).of = resp.of

-----------------------------------------------------------------------------
(* The catalog *)

\* the order os.walk found the files in, once the catalog is built
Walked == log[1].rel

PositionIn(seq, x) == CHOOSE i \in 1..Len(seq) : seq[i] = x

\* C16: the catalog holds every file found with its size, ascending by size,
\* and entries of equal size stand in the order the walk found them in.
C16_StableBySize ==
    (log # <<>> /\ log[1].ph = "catalog") =>
        /\ Len(sorted_files) = Len(Walked)
        /\ \A k \in 1..Len(Walked) :
              \E i \in 1..Len(sorted_files) :
                  sorted_files[i] = <<Walked[k], getsize(fs, join(SOURCE_DIR, Walked[k]))>>
        /\ \A i, j \in 1..Len(sorted_files) :
              i < j =>
                  /\ sorted_files[i][2] <= sorted_files[j][2]
                  /\ sorted_files[i][2] = sorted_files[j][2]
                        => PositionIn(Walked, sorted_files[i][1])
                               < PositionIn(Walked, sorted_files[j][1])

\* s.mp3 was found ahead of a.png, both of one size, and stands ahead of it
C16_Witness ==
    /\ log # <<>> /\ log[1].ph = "catalog"
    /\ Len(sorted_files) = 4
    /\ \E i \in 1..3 :
          /\ sorted_files[i] = <<<<"s", ".", "mp3">>, 2>>
          /\ sorted_files[i + 1] = <<<<"a", ".", "png">>, 2>>

-----------------------------------------------------------------------------
(* The server tree root and the trees on disk *)

\* C17: once the sync thread and the listener are started the server tree root
\* is the source root in direct mode and the private mirror root in mirror mode,
\* for every request handled, and no later step assigns it.
C17_RootFixed ==
    /\ [](mpc \in {"started", "serving"} =>
            BASE_SERVER_DIR = (IF MODE = "nocopytotemp" THEN SOURCE_DIR ELSE ServerRoot))
    /\ [][mpc # "boot" => BASE_SERVER_DIR' = BASE_SERVER_DIR]_vars

\* a request was answered from the mirror root while the mirror was being filled
C17_Witness ==
    /\ Answered /\ resp.status = 200
    /\ MODE = "copytotemp" /\ BASE_SERVER_DIR = ServerRoot /\ SOURCE_DIR = SourceRoot
    /\ wpc = "mirror"

\* C18: the step that handles a GET request leaves every file and folder as it
\* was, so that only sync_all and the tools it runs write.
C18_HandlersWriteNothing ==
    [][(<<req, resp>>' # <<req, resp>>) => fs' = fs]_vars

\* a thumbnail was served while sync_all had an ffmpeg run under way
C18_Witness ==
    /\ Answered /\ resp.status = 200 /\ resp.kind = "derivative"
    /\ tool.on

-----------------------------------------------------------------------------
(* What the thumbnail loop and the mirror loop do with what is already there *)

\* a step of the thumbnail loop that decides on an Image entry
C19_Decision ==
    /\ wpc = "thumbs" /\ wstep = "entry" /\ idx <= Len(sorted_files)
    /\ lower(splitext1(sorted_files[idx][1])) \in IMAGE_EXT
    /\ Len(log') = Len(log) + 1

\* C19: in the thumbnail loop an Image entry is passed over if and only if its
\* thumbnail exists and is not empty: a thumbnail of zero length is not taken
\* for a finished one, and a finished one is not generated again.
C19_SkipIffNonEmpty ==
    [][C19_Decision =>
          LET thumb == normpath(join(BASE_THUMB_DIR, thumb_rel_path(sorted_files[idx][1])))
              last == log'[Len(log')]
          IN  /\ last.what = "skip" =>
                    (thumb \in DOMAIN fs /\ fs[thumb].kind = "file" /\ fs[thumb].data # <<>>)
              /\ (thumb \in DOMAIN fs /\ fs[thumb].kind = "file" /\ fs[thumb].data # <<>>)
                    => (last.what = "skip" /\ fs'[thumb] = fs[thumb])
      ]_vars

\* the converted destination of the entry the mirror loop stands at
C20_Dst == normpath(join(BASE_SERVER_DIR, dst_rel_path(sorted_files[idx][1])))

\* what the conversion of the entry the mirror loop stands at writes
C20_Converted ==
    LET src == join(SOURCE_DIR, sorted_files[idx][1])
    IN  IF lower(splitext1(src)) \in VIDEO_EXT THEN VideoData(fs[src].data)
        ELSE FullImageData(fs[src].data)

\* a step of the mirror loop that decides on a Video or Image entry whose
\* converted destination is already in the mirror tree
C20_Decision ==
    /\ wpc = "mirror" /\ wstep = "entry" /\ idx <= Len(sorted_files)
    /\ ~IsCopyClass(sorted_files[idx][1])
    /\ C20_Dst \in DOMAIN fs /\ fs[C20_Dst].kind = "file"
    /\ Len(log') = Len(log) + 1

-----------------------------------------------------------------------------
(* What sync_all and its tools do to the files that are already there *)

\* p is a file of the mirror tree or of a derivative tree
InPrivateTrees(p) ==
    /\ p \in DOMAIN fs /\ fs[p].kind = "file"
    /\ Inside(p, ServerRoot) \/ Inside(p, ThumbRoot) \/ Inside(p, CoverRoot)

\* a step in which sync_all or a tool it started opens a destination: the
\* decision on an entry, or the first step of an ffmpeg run
C21_Opens == wpc \in {"thumbs", "covers", "mirror"} /\ (wstep = "entry" \/ (tool.on /\ tool.n < 0))

\* C21: a file that is already in the mirror tree or in a derivative tree is
\* never truncated or rewritten when sync_all or one of its tools opens a
\* destination: it keeps its bytes.
C21_CreateOrSkip ==
    [][C21_Opens =>
          \A p \in DOMAIN fs : InPrivateTrees(p) => (p \in DOMAIN fs' /\ fs'[p] = fs[p])]_vars

\* a step in which a conversion or an extraction returns to its loop: the loop
\* logs what became of the entry
C22_Returns ==
    /\ wstep \in {"thumbtool", "convtool", "copytool", "frametool"}
    /\ Len(log') = Len(log) + 1
    /\ log'[Len(log')].what \in {"done", "toolfail", "nopreview"}

\* C22: when convert_thumbnail, convert_image_full, convert_video or
\* extract_audio_cover has returned, its destination is a file that is not
\* empty or is not there; a run that failed has left nothing at the destination.
C22_NoStrayDestination ==
    [][C22_Returns =>
          LET dst == normpath(tool.dst)
          IN  /\ dst \in DOMAIN fs' => (fs'[dst].kind = "file" /\ fs'[dst].data # <<>>)
              /\ log'[Len(log')].what # "done" => dst \notin DOMAIN fs'
      ]_vars

-----------------------------------------------------------------------------
(* The audio previews *)

\* the cover preview of the entry the loop stands at
CoverOfEntry == normpath(join(BASE_COVER_DIR, cover_rel_path(sorted_files[idx][1])))

\* a step of the audio preview loop that decides on an Audio entry
C23_Decision ==
    /\ wpc = "covers" /\ wstep = "entry" /\ idx <= Len(sorted_files)
    /\ lower(splitext1(sorted_files[idx][1])) \in AUDIO_EXT
    /\ Len(log') = Len(log) + 1

\* C23: the audio preview loop is entered only when SHOW_AUDIO_META is set, and
\* when it is not set nothing appears or changes under the preview root; in the
\* loop an Audio entry is passed over if and only if its preview exists and is
\* not empty, and otherwise the extraction is attempted.
C23_PreviewsOnlyWhenShown ==
    [][/\ wpc' = "covers" => SHOW_AUDIO_META
       /\ ~SHOW_AUDIO_META =>
             \A p \in DOMAIN fs' : Inside(p, CoverRoot) => (p \in DOMAIN fs /\ fs'[p] = fs[p])
       /\ C23_Decision =>
             LET last == log'[Len(log')]
                 fresh == /\ CoverOfEntry \in DOMAIN fs
                          /\ fs[CoverOfEntry].kind = "file" /\ fs[CoverOfEntry].data # <<>>
             IN  /\ last.what = "skip" <=> fresh
                 /\ last.what = "skip" => (fs' = fs /\ ~tool'.on)
                 /\ last.what # "skip" => last.what \in {"start", "error"}
                 /\ last.what = "start" => (tool'.on /\ normpath(tool'.dst) = CoverOfEntry)
      ]_vars

\* the extraction has been started for s.mp3, whose preview was there with no
\* byte in it
C23_Witness ==
    /\ SHOW_AUDIO_META
    /\ wpc = "covers" /\ wstep = "copytool" /\ tool.on /\ tool.n < 0
    /\ CoverOfEntry \in DOMAIN fs /\ fs[CoverOfEntry].data = <<>>

\* the destination of the running extraction holds no byte or is not there
C24_NothingThere ==
    normpath(tool.dst) \notin DOMAIN fs \/ fs[normpath(tool.dst)].data = <<>>

\* the stream-copy has returned: the frame export is run exactly when the
\* stream-copy left no file or a file of zero bytes
C24_FallbackIffNothing ==
    (wpc = "covers" /\ wstep = "copytool" /\ Len(log') = Len(log) + 1) =>
        (log'[Len(log')].what = "fallback" <=> C24_NothingThere)

\* the frame export has returned without having completed, after a stream-copy
\* that did not complete either: failure is reported, no file of zero bytes is
\* left, the emptied folders above the destination are gone and the private
\* root and every folder that holds something stay
C24_BothFailed ==
    (wpc = "covers" /\ wstep = "frametool" /\ ~ToolDone /\ Len(log') = Len(log) + 1) =>
        /\ log'[Len(log')].what = "nopreview"
        /\ normpath(tool.dst) \in DOMAIN fs' => fs'[normpath(tool.dst)].data # <<>>
        /\ temp_root_path \in DOMAIN fs'
        /\ \A d \in DOMAIN fs : (fs[d].kind = "dir" /\ d \notin DOMAIN fs') =>
              (Inside(d, temp_root_path) /\ d # temp_root_path
                  /\ \A q \in listdir(fs, d) :
                        join(d, q) \notin DOMAIN fs' \/ fs[join(d, q)].data = <<>>)
        /\ \A d \in DOMAIN fs' : (fs'[d].kind = "dir" /\ Inside(d, dirname(normpath(tool.dst)))
                                    /\ d # temp_root_path)
              => listdir(fs', d) # {}

\* C24: extract_audio_cover runs the stream-copy first and the frame export
\* exactly when the stream-copy left no file or an empty one; when both fail it
\* reports failure, leaves no empty file and removes the emptied destination
\* folders upward, but no folder that holds something and not the private root.
C24_CoverExtraction == [][C24_FallbackIffNothing /\ C24_BothFailed]_vars

-----------------------------------------------------------------------------
(* The rotate control *)

\* the angle after the k-th accepted click
CycleAngle(k) == (((k - 1) % 4) + 1) * 90

\* C25: the angle of the image player is one of 0, 90, 180, 270, 360; the
\* accepted clicks lead through 90, 180, 270, 360, 90, ...; at 360 a snap-back
\* is under way, which sets the angle to 0; a click during the snap-back
\* changes nothing.
C25_RotationCycle ==
    /\ [](browser.stage = "image" =>
            /\ browser.rotation \in {0, 90, 180, 270, 360}
            /\ \A k \in 1..Len(browser.accepted) : browser.accepted[k] = CycleAngle(k)
            /\ browser.rotation = 360 <=> browser.busy
            /\ browser.busy => browser.timers = 1)
    /\ [][browser.stage = "image" =>
            /\ (browser.busy /\ browser'.clicks = browser.clicks + 1) =>
                  (browser'.rotation = browser.rotation /\ browser'.timers = browser.timers
                      /\ browser'.accepted = browser.accepted)
            /\ (~browser.busy /\ browser'.clicks = browser.clicks + 1) =>
                  browser'.rotation = (browser.rotation % 360) + 90
            /\ browser'.timers < browser.timers => browser'.rotation = 0]_vars

\* the image has been turned round more than once, a click during a snap-back
\* was ignored, and the angle is back at 90
C25_Witness ==
    /\ browser.stage = "image"
    /\ Len(browser.accepted) = 5 /\ browser.clicks > 5
    /\ browser.rotation = 90

-----------------------------------------------------------------------------
(* Termination of sync_all *)

\* how many events of the log end the work of phase ph on entry rel
TimesVisited(ph, rel) ==
    Cardinality({i \in 1..Len(log) : log[i].ph = ph /\ IsTerminal(log[i]) /\ log[i].rel = rel})

\* C26: when every tool run and every file operation returns, with or without
\* an error, sync_all comes to its end: it is never ended short of it, and at
\* its end every phase that applies has dealt with every entry of the catalog
\* exactly once.
C26_Finishes ==
    /\ wpc # "dead"
    /\ wpc = "finished" =>
          \A ph \in {"thumbs", "covers", "mirror"} : \A k \in 1..Len(sorted_files) :
              TimesVisited(ph, sorted_files[k][1]) = (IF Applicable(ph) THEN 1 ELSE 0)

-----------------------------------------------------------------------------
(* Every partial answer of send_file *)

\* C27: every 206 answer of send_file, whatever the Range header and the size
\* of the file, has 0 <= start <= end <= size - 1, and a Content-Length that is
\* not negative and is the number of bytes of the body.
C27_WindowInsideFile ==
    (Answered /\ resp.status = 206 /\ resp.kind = "file") =>
        /\ 0 <= resp.crange[1]
        /\ resp.crange[1] <= resp.crange[2]
        /\ resp.crange[2] <= resp.crange[3] - 1
        /\ resp.crange[3] = Len(fs[RangeFile].data)
        /\ resp.clen >= 0
        /\ resp.clen = Len(resp.body)

-----------------------------------------------------------------------------
(* Where the entries of the catalog are written *)

\* C28: no two entries of the catalog have the same thumbnail path, the same
\* cover preview path or the same destination in the mirror tree.
C28_PathsDistinct ==
    \A i, j \in 1..Len(sorted_files) :
        LET x == sorted_files[i][1]
            y == sorted_files[j][1]
        IN  i # j =>
              /\ (lower(splitext1(x)) \in IMAGE_EXT /\ lower(splitext1(y)) \in IMAGE_EXT)
                    => thumb_rel_path(x) # thumb_rel_path(y)
              /\ (lower(splitext1(x)) \in AUDIO_EXT /\ lower(splitext1(y)) \in AUDIO_EXT)
                    => cover_rel_path(x) # cover_rel_path(y)
              /\ dst_rel_path(x) # dst_rel_path(y)

\* the entries of the source folder that the file rel of the server tree comes from
SourceOf(rel) ==
    LET walked == os_walk(fs, SOURCE_DIR)
    IN  {walked[i] : i \in {k \in 1..Len(walked) :
            IF MODE = "nocopytotemp" THEN walked[k] = rel ELSE dst_rel_path(walked[k]) = rel}}

\* where a request for the URL of a derivative is looked up
UrlResolved(url) == DerivativeResolved([target |-> url, query |-> <<>>, range |-> <<>>])

\* C29: the thumbnail URL of each picture of a paged listing of the server tree
\* resolves to the path the Thumbnails phase writes the thumbnail of the
\* picture's source entry to, and the cover the player of an audio file looks up
\* is the path the Audio previews phase writes the cover of its source entry to.
C29_ShownIsWritten ==
    /\ (wpc = "thumbs" /\ wstep = "thumbtool") =>
            tool.dst = join(BASE_THUMB_DIR, thumb_rel_path(sorted_files[idx][1]))
    /\ (wpc = "covers" /\ wstep \in {"copytool", "frametool"}) =>
            tool.dst = join(BASE_COVER_DIR, cover_rel_path(sorted_files[idx][1]))
    /\ (Answered /\ resp.kind = "listing" /\ resp.html[1].mode = <<"paged">>) =>
            \A i \in 1..Len(resp.html[1].rows) :
                LET row == resp.html[1].rows[i]
                IN  (row.kind = "media" /\ lower(splitext1(row.name)) \in IMAGE_EXT) =>
                        /\ row.thumb # <<>>
                        /\ \A e \in SourceOf(row.name) :
                              UrlResolved(row.thumb) = join(BASE_THUMB_DIR, thumb_rel_path(e))
    /\ (Answered /\ resp.kind = "player" /\ resp.html[1].cover_full # <<>>) =>
            \A e \in SourceOf(basename(resp.of)) :
                resp.html[1].cover_full[1] = join(BASE_COVER_DIR, cover_rel_path(e))

\* the paged listing of the mirror shows the converted picture a.jpg, whose
\* thumbnail the Thumbnails phase wrote for a.png
C29_Witness ==
    /\ MODE # "nocopytotemp" /\ wpc = "finished"
    /\ Answered /\ resp.kind = "listing" /\ resp.html[1].mode = <<"paged">>
    /\ \E i \in 1..Len(resp.html[1].rows) :
          LET row == resp.html[1].rows[i]
          IN  /\ row.name = <<"a", ".", "jpg">>
              /\ SourceOf(row.name) = {<<"a", ".", "png">>}
              /\ row.thumb # <<>>
              /\ isfile(fs, UrlResolved(row.thumb))
    /\ \E k \in 1..Len(log) : log[k] = Event("thumbs", <<"a", ".", "png">>, "done")

\* C30: a request below /__thumbs__/ or /__preview__/ gets one complete
\* response: 200 with the bytes of a regular file, as many as its Content-Length
\* says, or an error status; never a 200 header with no body behind it.
C30_DerivativeAnswerComplete ==
    (Answered /\ IsDerivativeRequest(req)) =>
        /\ resp.kind # "aborted"
        /\ resp.status = 200 =>
              /\ isfile(fs, DerivativeResolved(req))
              /\ resp.body = fs[DerivativeResolved(req)].data
              /\ resp.clen = Len(resp.body)
        /\ resp.status # 200 => resp.kind = "error"

=============================================================================
